---- MODULE Spec2Model ----
(***************************************************************************)
(* Telugu akshara segmentation and dwipada prosody analysis                *)
(* (aksharanusarika.py and dwipada_analyzer.py).                           *)
(*                                                                         *)
(* A Python string is a sequence of characters; a character is written     *)
(* here by an ASCII transliteration of its Telugu code point:              *)
(*   consonants   "ka" "kha" ... "ha" "La" "Ra"                            *)
(*   vowel signs  "-aa" "-i" "-ii" "-u" "-uu" "-R" "-RR" "-e" "-ee" "-ai"  *)
(*                "-o" "-oo" "-au"                                         *)
(*   vowels       "a" "aa" "i" "ii" "u" "uu" "R" "RR" "e" "ee" "ai" "o"    *)
(*                "oo" "au"                                                *)
(*   "~" virama (halant), "M" anusvara, "H" visarga,                       *)
(*   "SP" space, "NL" newline, "CB" arasunna, "ZW" zero-width space,       *)
(*   "1" a Telugu digit (a code point that none of the tables lists).      *)
(***************************************************************************)
EXTENDS Integers, Sequences, FiniteSets, TLC

VARIABLES pc, text, aksharalu, da_aksharalu, in_aksharalu, markers, da_markers,
          gana_markers, line_aksharalu, partition,
          memo, th,
          letter1, letter2, yati,
          line1, line2, prasa,
          word1, word2, comparison, seq1, seq2, lcs,
          gana_score, sub_scores, match_score, poem, analysis,
          report_text, report,
          files, saved, proc, downloads,
          fetch

segVars == <<text, aksharalu, da_aksharalu, in_aksharalu, markers, da_markers>>

partVars == <<gana_markers, line_aksharalu, partition>>

enumVars == <<memo, th>>

yatiVars == <<letter1, letter2, yati>>

prasaVars == <<line1, line2, prasa>>

simVars == <<word1, word2, comparison, seq1, seq2, lcs>>

scoreVars == <<gana_score, sub_scores, match_score>>

coupletVars == <<poem, analysis>>

reportVars == <<report_text, report>>

crawlVars == <<files, saved, proc, downloads>>

fetchVars == <<fetch>>

vars == <<pc, segVars, partVars, enumVars, yatiVars, prasaVars, simVars, scoreVars,
          coupletVars, reportVars, crawlVars, fetchVars>>

-----------------------------------------------------------------------------
(* Bounds of the model *)

MaxText == 5

MaxAk == 3

MaxLine == 14

MaxGap == 1

MaxSyl == 6

MaxConcSyl == 3

MaxPrasaUnits == 3

MaxWordUnits == 3

MaxMarkers == 5

MaxPoemLines == 3

(* syllables of each input when one analyzer is called twice in a row *)
MaxSeqSyl == 4

(* characters of a text that both modules split, to compare them *)
MaxAgreeText == 4

(* units of a text a report is made for *)
MaxReportUnits == 4

(* chapters of the first kanda the crawler walks through *)
MaxChapters == 2

(* times the crawler is started, each start resuming from the checkpoint *)
MaxRuns == 2

(* largest value of the retries argument of fetch_page *)
MaxRetries == 4

-----------------------------------------------------------------------------
(* Symbol tables: identical in aksharanusarika.py and dwipada_analyzer.py *)

halant == "~"

telugu_consonants ==
  {"ka", "kha", "ga", "gha", "nga", "ca", "cha", "ja", "jha", "nya",
   "Ta", "Tha", "Da", "Dha", "Na", "ta", "tha", "da", "dha", "na",
   "pa", "pha", "ba", "bha", "ma", "ya", "ra", "la", "va", "sha",
   "Sa", "sa", "ha", "La", "Ra"}

long_vowels == {"-aa", "-ii", "-uu", "-ee", "-oo", "-au", "-RR"}

independent_vowels ==
  {"a", "aa", "i", "ii", "u", "uu", "R", "RR", "e", "ee", "ai", "o", "oo", "au"}

independent_long_vowels == {"aa", "ii", "uu", "RR", "ee", "oo"}

diacritics == {"M", "H"}

dependent_vowels ==
  {"-aa", "-i", "-ii", "-u", "-uu", "-R", "-RR", "-e", "-ee", "-ai", "-o", "-oo", "-au"}

ignorable_chars == {"SP", "NL", "CB", "ZW"}

(* Python `s in chars` for a set of one-character strings: s is one of them *)
InCharSet(s, chars) == Len(s) = 1 /\ s[1] \in chars

(* Python `ch in s` for a one-character string ch: s contains the character *)
HasChar(s, ch) == \E k \in 1..Len(s) : s[k] = ch

(* Python "".join over a list of strings *)
RECURSIVE Join(_)
Join(units) == IF units = <<>> THEN <<>> ELSE Head(units) \o Join(Tail(units))

-----------------------------------------------------------------------------
(* split_aksharalu of aksharanusarika.py *)

(* mutant of conjunct_chain_end: a virama that no consonant follows is left
   to the next unit *)
RECURSIVE conjunct_chain_end_virama_left(_, _)
conjunct_chain_end_virama_left(word, i) ==
  IF i <= Len(word) /\ word[i] = halant
  THEN IF i + 1 <= Len(word) /\ word[i + 1] \in telugu_consonants
       THEN conjunct_chain_end_virama_left(word, i + 2)
       ELSE i
  ELSE i

(* the conjunct chain: (virama, consonant) pairs; a virama that no consonant
   follows is consumed and ends the chain.  Returns the index after the chain. *)
RECURSIVE conjunct_chain_end(_, _)
conjunct_chain_end(word, i) ==
  IF i <= Len(word) /\ word[i] = halant
  THEN IF i + 1 <= Len(word) /\ word[i + 1] \in telugu_consonants
       THEN conjunct_chain_end(word, i + 2)
       ELSE i + 1
  ELSE i

(* the trailing vowel signs and diacritics *)
RECURSIVE vowel_suffix_end(_, _)
vowel_suffix_end(word, i) ==
  IF i <= Len(word) /\ (word[i] \in dependent_vowels \/ word[i] \in diacritics)
  THEN vowel_suffix_end(word, i + 1)
  ELSE i

(* index after the unit that starts at i (not an ignorable character) *)
unit_end(word, i) ==
  IF word[i] \in telugu_consonants
  THEN vowel_suffix_end(word, conjunct_chain_end(word, i + 1))
  ELSE IF word[i] \in independent_vowels /\ i + 1 <= Len(word) /\ word[i + 1] \in diacritics
       THEN i + 2
       ELSE i + 1

RECURSIVE coarse_from(_, _)
coarse_from(word, i) ==
  IF i > Len(word) THEN <<>>
  ELSE IF word[i] \in ignorable_chars
       THEN <<SubSeq(word, i, i)>> \o coarse_from(word, i + 1)
       ELSE LET j == unit_end(word, i)
            IN  <<SubSeq(word, i, j - 1)>> \o coarse_from(word, j)

coarse_split(word) == coarse_from(word, 1)

is_pollu_hallu(chunk) ==
  Len(chunk) = 2 /\ chunk[1] \in telugu_consonants /\ chunk[2] = halant

(* mutant of merge_step: the bare consonant overwrites the unit before it *)
merge_step_overwrite(final, chunk) ==
  IF is_pollu_hallu(chunk) /\ final # <<>>
     /\ ~InCharSet(final[Len(final)], ignorable_chars)
  THEN [final EXCEPT ![Len(final)] = chunk]
  ELSE Append(final, chunk)

(* mutant of merge_step: the unit before is not tested for being ignorable *)
merge_step_into_ignorable(final, chunk) ==
  IF is_pollu_hallu(chunk) /\ final # <<>>
  THEN [final EXCEPT ![Len(final)] = @ \o chunk]
  ELSE Append(final, chunk)

(* one iteration of the merge loop: final_aksharalu after seeing chunk *)
merge_step(final, chunk) ==
  IF is_pollu_hallu(chunk) /\ final # <<>>
     /\ ~InCharSet(final[Len(final)], ignorable_chars)
  THEN [final EXCEPT ![Len(final)] = @ \o chunk]
  ELSE Append(final, chunk)

RECURSIVE merge_pollu(_, _)
merge_pollu(final, chunks) ==
  IF chunks = <<>> THEN final
  ELSE merge_pollu(merge_step(final, Head(chunks)), Tail(chunks))

split_aksharalu(word) ==
  LET coarse == coarse_split(word)
  IN  IF coarse = <<>> THEN <<>>
      ELSE SelectSeq(merge_pollu(<<>>, coarse), LAMBDA ak : ak # <<>>)

-----------------------------------------------------------------------------
(* split_aksharalu of dwipada_analyzer.py *)

RECURSIVE DA_coarse_from(_, _)
DA_coarse_from(word, i) ==
  IF i > Len(word) THEN <<>>
  ELSE IF word[i] \in ignorable_chars
       THEN <<SubSeq(word, i, i)>> \o DA_coarse_from(word, i + 1)
       ELSE LET j == IF word[i] \in telugu_consonants
                     THEN vowel_suffix_end(word, conjunct_chain_end(word, i + 1))
                     ELSE IF word[i] \in independent_vowels /\ i + 1 <= Len(word)
                             /\ word[i + 1] \in diacritics
                          THEN i + 2
                          ELSE i + 1
            IN  <<SubSeq(word, i, j - 1)>> \o DA_coarse_from(word, j)

(* mutant of DA_merge_pollu: no bare consonant is merged *)
RECURSIVE DA_merge_pollu_no_merge(_, _)
DA_merge_pollu_no_merge(final, chunks) ==
  IF chunks = <<>> THEN final
  ELSE DA_merge_pollu_no_merge(Append(final, Head(chunks)), Tail(chunks))

RECURSIVE DA_merge_pollu(_, _)
DA_merge_pollu(final, chunks) ==
  IF chunks = <<>> THEN final
  ELSE LET chunk == Head(chunks)
           merged == IF is_pollu_hallu(chunk) /\ final # <<>>
                        /\ ~InCharSet(final[Len(final)], ignorable_chars)
                     THEN [final EXCEPT ![Len(final)] = @ \o chunk]
                     ELSE Append(final, chunk)
       IN  DA_merge_pollu(merged, Tail(chunks))

DA_split_aksharalu(word) ==
  LET coarse == DA_coarse_from(word, 1)
  IN  IF coarse = <<>> THEN <<>>
      ELSE SelectSeq(DA_merge_pollu(<<>>, coarse), LAMBDA ak : ak # <<>>)

-----------------------------------------------------------------------------
(* Classifier of aksharanusarika.py.  A tag is written by a transliteration
   of its Telugu name; the sorted tag list is held as the set of its tags
   (every reader of the list turns it back into a set or tests membership). *)

dependent_to_independent ==
  [dv \in dependent_vowels |->
     CASE dv = "-aa" -> "aa" [] dv = "-i" -> "i"   [] dv = "-ii" -> "ii"
       [] dv = "-u"  -> "u"  [] dv = "-uu" -> "uu" [] dv = "-R"  -> "R"
       [] dv = "-RR" -> "RR" [] dv = "-e"  -> "e"  [] dv = "-ee" -> "ee"
       [] dv = "-ai" -> "ai" [] dv = "-o"  -> "o"  [] dv = "-oo" -> "oo"
       [] dv = "-au" -> "au"]

PLUTAMULU == {"ai", "au"}

SARALAMULU == {"ga", "ja", "Da", "da", "ba"}

PARUSHAMULU == {"ka", "ca", "Ta", "ta", "pa"}

STHIRAMULU ==
  {"kha", "gha", "nga", "cha", "jha", "nya", "Tha", "Dha", "Na", "tha", "dha", "na",
   "pha", "bha", "ma", "ya", "ra", "Ra", "la", "La", "va", "sha", "Sa", "sa", "ha"}

KA_VARGAMU == {"ka", "kha", "ga", "gha", "nga"}

CHA_VARGAMU == {"ca", "tsa", "cha", "ja", "dza", "jha", "nya"}

TA_VARGAMU == {"Ta", "Tha", "Da", "Dha", "Na"}

THA_VARGAMU == {"ta", "tha", "da", "dha", "na"}

PA_VARGAMU == {"pa", "pha", "ba", "bha", "ma"}

SPARSHA_MULU ==
  KA_VARGAMU \cup CHA_VARGAMU \cup TA_VARGAMU \cup THA_VARGAMU \cup PA_VARGAMU

OOSHMA_MULU == {"sha", "sa", "Sa", "ha"}

ANTASTA_MULU == {"ya", "ra", "Ra", "la", "La", "va"}

KANTHYAMULU == {"a", "aa", "ka", "kha", "ga", "gha", "nga", "ha"}

TAALAVYAMULU == {"i", "ii", "ca", "cha", "ja", "jha", "ya", "sha"}

MOORDHANYAMULU == {"R", "RR", "Ta", "Tha", "Da", "Dha", "Na", "Sa", "Ra", "ra"}

DANTYAMULU == {"L", "LL", "ta", "tha", "da", "dha", "tsa", "dza", "la", "sa"}

OOSHTYAMULU == {"u", "uu", "pa", "pha", "ba", "bha", "ma"}

ANUNAASIKA_MULU == {"nga", "nya", "Na", "na", "ma"}

KANTHATAALAVYA_MULU == {"e", "ee", "ai"}

KANTHOSH_TYAMULU == {"o", "oo", "au"}

DANTOSH_TYAMULU == {"va"}

(* the categories add_letter_categories adds for one character *)
add_letter_categories(ch) ==
  (IF ch \in PLUTAMULU THEN {"plutamulu"} ELSE {})
  \cup (IF ch \in SARALAMULU THEN {"saralamulu"} ELSE {})
  \cup (IF ch \in PARUSHAMULU THEN {"parushamulu"} ELSE {})
  \cup (IF ch \in STHIRAMULU THEN {"sthiramulu"} ELSE {})
  \cup (IF ch \in KA_VARGAMU THEN {"ka vargamu"} ELSE {})
  \cup (IF ch \in CHA_VARGAMU THEN {"ca vargamu"} ELSE {})
  \cup (IF ch \in TA_VARGAMU THEN {"Ta vargamu"} ELSE {})
  \cup (IF ch \in THA_VARGAMU THEN {"ta vargamu"} ELSE {})
  \cup (IF ch \in PA_VARGAMU THEN {"pa vargamu"} ELSE {})
  \cup (IF ch \in SPARSHA_MULU THEN {"sparshamulu"} ELSE {})
  \cup (IF ch \in OOSHMA_MULU THEN {"ooshmalu"} ELSE {})
  \cup (IF ch \in ANTASTA_MULU THEN {"antastamulu"} ELSE {})
  \cup (IF ch \in KANTHYAMULU THEN {"kanthyamulu"} ELSE {})
  \cup (IF ch \in TAALAVYAMULU THEN {"taalavyamulu"} ELSE {})
  \cup (IF ch \in MOORDHANYAMULU THEN {"moordhanyamulu"} ELSE {})
  \cup (IF ch \in DANTYAMULU THEN {"dantyamulu"} ELSE {})
  \cup (IF ch \in OOSHTYAMULU THEN {"ooshtyamulu"} ELSE {})
  \cup (IF ch \in ANUNAASIKA_MULU THEN {"anunaasikamulu"} ELSE {})
  \cup (IF ch \in KANTHATAALAVYA_MULU THEN {"kanthataalavyamulu"} ELSE {})
  \cup (IF ch \in KANTHOSH_TYAMULU THEN {"kanthoshtyamulu"} ELSE {})
  \cup (IF ch \in DANTOSH_TYAMULU THEN {"dantyoshtyamulu"} ELSE {})

(* what a call that raised IndexError yields in place of its tag set *)
TagsIndexError == {"<IndexError>"}

(* mutant of found_conjunct: the two consonants are not compared *)
found_conjunct_also_same(aksharam) ==
  \E i \in 1..(Len(aksharam) - 2) :
     /\ aksharam[i] \in telugu_consonants
     /\ aksharam[i + 1] = halant
     /\ aksharam[i + 2] \in telugu_consonants

(* the loop over i in range(len(aksharam) - 2): (found_conjunct, found_double) *)
found_conjunct(aksharam) ==
  \E i \in 1..(Len(aksharam) - 2) :
     /\ aksharam[i] \in telugu_consonants
     /\ aksharam[i + 1] = halant
     /\ aksharam[i + 2] \in telugu_consonants
     /\ aksharam[i] # aksharam[i + 2]

found_double(aksharam) ==
  \E i \in 1..(Len(aksharam) - 2) :
     /\ aksharam[i] \in telugu_consonants
     /\ aksharam[i + 1] = halant
     /\ aksharam[i + 2] \in telugu_consonants
     /\ aksharam[i] = aksharam[i + 2]

(* the tags computed from the akshara's own shape (lines 138-158) *)
basic_categories(aksharam) ==
  (IF aksharam[1] \in independent_vowels THEN {"acchu"}
   ELSE IF InCharSet(aksharam, diacritics) THEN {"acchu"} ELSE {})
  \cup (IF \E k \in 1..Len(aksharam) : aksharam[k] \in telugu_consonants
        THEN {"hallu"} ELSE {})
  \cup (IF (\E dv \in long_vowels : HasChar(aksharam, dv))
           \/ InCharSet(aksharam, independent_long_vowels)
        THEN {"deergha"} ELSE {})
  \cup (IF HasChar(aksharam, "H") THEN {"visarga aksharam"} ELSE {})
  \cup (IF HasChar(aksharam, "M") THEN {"anusvaram"} ELSE {})
  \cup (IF found_conjunct(aksharam) THEN {"samyuktaksharam"} ELSE {})
  \cup (IF found_double(aksharam) THEN {"dvitvaksharam"} ELSE {})

categorize_aksharam(aksharam) ==
  IF Len(aksharam) = 0 THEN TagsIndexError
  ELSE
    LET basic == basic_categories(aksharam)
        hrasva ==
          IF ("hallu" \in basic \/ "acchu" \in basic)
             /\ "deergha" \notin basic
             /\ "anusvaram" \notin basic
             /\ "visarga aksharam" \notin basic
          THEN {"hrasvaksharam"} ELSE {}
        letters == UNION {add_letter_categories(aksharam[k]) : k \in 1..Len(aksharam)}
        signs == {dv \in dependent_vowels : HasChar(aksharam, dv)}
        vowels == UNION {add_letter_categories(dependent_to_independent[dv]) : dv \in signs}
        inherent ==
          IF (\E k \in 1..Len(aksharam) : aksharam[k] \in telugu_consonants)
             /\ signs = {}
             /\ aksharam[Len(aksharam)] # halant
          THEN add_letter_categories("a") ELSE {}
    IN  basic \cup hrasva \cup letters \cup vowels \cup inherent

(* Classifier of dwipada_analyzer.py: the basic tags only *)
DA_categorize_aksharam(aksharam) ==
  IF Len(aksharam) = 0 THEN TagsIndexError
  ELSE
    (IF aksharam[1] \in independent_vowels THEN {"acchu"}
     ELSE IF InCharSet(aksharam, diacritics) THEN {"acchu"} ELSE {})
    \cup (IF \E k \in 1..Len(aksharam) : aksharam[k] \in telugu_consonants
          THEN {"hallu"} ELSE {})
    \cup (IF (\E dv \in long_vowels : HasChar(aksharam, dv))
             \/ InCharSet(aksharam, independent_long_vowels)
          THEN {"deergha"} ELSE {})
    \cup (IF HasChar(aksharam, "H") THEN {"visarga aksharam"} ELSE {})
    \cup (IF HasChar(aksharam, "M") THEN {"anusvaram"} ELSE {})
    \cup (IF found_conjunct(aksharam) THEN {"samyuktaksharam"} ELSE {})
    \cup (IF found_double(aksharam) THEN {"dvitvaksharam"} ELSE {})

-----------------------------------------------------------------------------
(* Guru-laghu assignment.  Markers: "U" Guru, "I" Laghu, "" Empty. *)

(* what a call that raised IndexError yields in place of its marker list *)
MarkersIndexError == <<"<IndexError>">>

(* Python aksharam.endswith(halant) *)
endswith_halant(aksharam) == Len(aksharam) > 0 /\ aksharam[Len(aksharam)] = halant

has_diphthong(aksharam) ==
  HasChar(aksharam, "ai") \/ HasChar(aksharam, "au")
  \/ HasChar(aksharam, "-ai") \/ HasChar(aksharam, "-au")

(* first pass of aksharanusarika.py: the marker of one akshara *)
first_pass(aksharam) ==
  IF InCharSet(aksharam, ignorable_chars) THEN ""
  ELSE LET tags == categorize_aksharam(aksharam)
           is_guru == \/ "deergha" \in tags
                      \/ has_diphthong(aksharam)
                      \/ "anusvaram" \in tags \/ "visarga aksharam" \in tags
                      \/ endswith_halant(aksharam)
       IN  IF is_guru THEN "U" ELSE "I"

(* mutant of next_syllable_index: looks at the adjacent unit only *)
next_syllable_index_adjacent(aksharalu_list, i) ==
  IF i + 1 <= Len(aksharalu_list) /\ ~InCharSet(aksharalu_list[i + 1], ignorable_chars)
  THEN i + 1 ELSE -1

(* the inner loop of the second pass: the index of the next non-ignorable
   akshara after i, or -1 *)
next_syllable_index(aksharalu_list, i) ==
  LET later == {j \in (i + 1)..Len(aksharalu_list) :
                  ~InCharSet(aksharalu_list[j], ignorable_chars)}
  IN  IF later = {} THEN -1 ELSE CHOOSE j \in later : \A k \in later : j <= k

second_pass(aksharalu_list, ganam_markers, i) ==
  IF ganam_markers[i] = "" THEN ""
  ELSE LET nxt == next_syllable_index(aksharalu_list, i)
       IN  IF nxt # -1
              /\ LET next_aksharam_tags == categorize_aksharam(aksharalu_list[nxt])
                 IN  "samyuktaksharam" \in next_aksharam_tags
                     \/ "dvitvaksharam" \in next_aksharam_tags
           THEN "U"
           ELSE ganam_markers[i]

akshara_ganavibhajana(aksharalu_list) ==
  IF aksharalu_list = <<>> THEN <<>>
  ELSE IF \E i \in 1..Len(aksharalu_list) : aksharalu_list[i] = <<>>
       THEN MarkersIndexError
       ELSE LET ganam_markers ==
                  [i \in 1..Len(aksharalu_list) |-> first_pass(aksharalu_list[i])]
            IN  [i \in 1..Len(aksharalu_list) |->
                   second_pass(aksharalu_list, ganam_markers, i)]

(* mutant of DA_first_pass: the anusvara / visarga test is missing *)
DA_first_pass_no_diacritic(aksharam) ==
  IF InCharSet(aksharam, ignorable_chars) THEN ""
  ELSE LET tags == DA_categorize_aksharam(aksharam)
           is_guru == \/ "deergha" \in tags
                      \/ has_diphthong(aksharam)
                      \/ endswith_halant(aksharam)
       IN  IF is_guru THEN "U" ELSE "I"

(* dwipada_analyzer.py *)
DA_first_pass(aksharam) ==
  IF InCharSet(aksharam, ignorable_chars) THEN ""
  ELSE LET tags == DA_categorize_aksharam(aksharam)
           is_guru == \/ "deergha" \in tags
                      \/ has_diphthong(aksharam)
                      \/ "anusvaram" \in tags \/ "visarga aksharam" \in tags
                      \/ endswith_halant(aksharam)
       IN  IF is_guru THEN "U" ELSE "I"

DA_second_pass(aksharalu_list, ganam_markers, i) ==
  IF ganam_markers[i] = "" THEN ""
  ELSE LET nxt == next_syllable_index(aksharalu_list, i)
       IN  IF nxt # -1
              /\ LET next_aksharam_tags == DA_categorize_aksharam(aksharalu_list[nxt])
                 IN  "samyuktaksharam" \in next_aksharam_tags
                     \/ "dvitvaksharam" \in next_aksharam_tags
           THEN "U"
           ELSE ganam_markers[i]

DA_akshara_ganavibhajana(aksharalu_list) ==
  IF aksharalu_list = <<>> THEN <<>>
  ELSE IF \E i \in 1..Len(aksharalu_list) : aksharalu_list[i] = <<>>
       THEN MarkersIndexError
       ELSE LET ganam_markers ==
                  [i \in 1..Len(aksharalu_list) |-> DA_first_pass(aksharalu_list[i])]
            IN  [i \in 1..Len(aksharalu_list) |->
                   DA_second_pass(aksharalu_list, ganam_markers, i)]

-----------------------------------------------------------------------------
(* Gana partitioner of dwipada_analyzer.py *)

INDRA_GANAS ==
  [p \in {"IIII", "IIIU", "IIUI", "UII", "UIU", "UUI"} |->
     CASE p = "IIII" -> "Nala" [] p = "IIIU" -> "Naga" [] p = "IIUI" -> "Sala"
       [] p = "UII" -> "Bha"   [] p = "UIU" -> "Ra"    [] p = "UUI" -> "Ta"]

SURYA_GANAS ==
  [p \in {"III", "UI"} |-> CASE p = "III" -> "Na" [] p = "UI" -> "Ha/Gala"]

(* Python None, where a dict is expected *)
None == [is_none |-> TRUE]

(* Python None, where a gana name is expected *)
NoneName == "<None>"

(* "".join over a list of one-character strings, as a TLA+ string *)
RECURSIVE StrJoin(_)
StrJoin(ms) == IF ms = <<>> THEN "" ELSE Head(ms) \o StrJoin(Tail(ms))

(* Python seq[a:b] for 0 <= a <= b: the slice is cut at the end of seq *)
PySlice(seq, a, b) ==
  LET hi == IF b < Len(seq) THEN b ELSE Len(seq)
  IN  IF a >= hi THEN <<>> ELSE SubSeq(seq, a + 1, hi)

(* mutant of identify_gana: the Surya pattern III is also an Indra gana *)
identify_gana_na_is_indra(pattern) ==
  IF pattern \in DOMAIN INDRA_GANAS \cup {"III"}
  THEN <<IF pattern = "III" THEN "Na" ELSE INDRA_GANAS[pattern], "Indra">>
  ELSE IF pattern \in DOMAIN SURYA_GANAS THEN <<SURYA_GANAS[pattern], "Surya">>
  ELSE <<NoneName, "Unknown">>

identify_gana(pattern) ==
  IF pattern \in DOMAIN INDRA_GANAS THEN <<INDRA_GANAS[pattern], "Indra">>
  ELSE IF pattern \in DOMAIN SURYA_GANAS THEN <<SURYA_GANAS[pattern], "Surya">>
  ELSE <<NoneName, "Unknown">>

(* the sixteen length combinations in the order of the nested loops:
   i1_len outermost, s_len innermost, the smaller length first *)
LengthCombinations ==
  [k \in 1..16 |->
     <<3 + ((k - 1) \div 8), 3 + (((k - 1) \div 4) % 2),
       3 + (((k - 1) \div 2) % 2), 2 + ((k - 1) % 2)>>]

(* one gana entry of partition_data *)
gana_entry(position, pure_ganas, pure_aksharalu, pos, len, expected_type) ==
  LET pattern == StrJoin(PySlice(pure_ganas, pos, pos + len))
      found == identify_gana(pattern)
  IN  [position |-> position,
       name |-> found[1],
       pattern |-> pattern,
       aksharalu |-> PySlice(pure_aksharalu, pos, pos + len),
       type |-> expected_type,
       expected_type |-> expected_type,
       valid |-> (found[2] = expected_type)]

(* mutant of partition_data: a pattern of either family is valid in any slot *)
partition_data_any_family(pure_ganas, pure_aksharalu, lens) ==
  LET entry(position, pos, len, expected_type) ==
        LET e == gana_entry(position, pure_ganas, pure_aksharalu, pos, len, expected_type)
        IN  [e EXCEPT !.valid = (identify_gana(e.pattern)[2] # "Unknown")]
      g1 == entry(1, 0, lens[1], "Indra")
      g2 == entry(2, lens[1], lens[2], "Indra")
      g3 == entry(3, lens[1] + lens[2], lens[3], "Indra")
      g4 == entry(4, lens[1] + lens[2] + lens[3], lens[4], "Surya")
      valid_count == Cardinality({g \in {g1, g2, g3, g4} : g.valid})
  IN  [ganas |-> <<g1, g2, g3, g4>>,
       total_syllables |-> Len(pure_ganas),
       ganas_matched |-> valid_count,
       is_fully_valid |-> (valid_count = 4),
       partition_lengths |-> lens]

(* the body of the innermost loop for one combination that fits the line *)
partition_data(pure_ganas, pure_aksharalu, lens) ==
  LET g1 == gana_entry(1, pure_ganas, pure_aksharalu, 0, lens[1], "Indra")
      g2 == gana_entry(2, pure_ganas, pure_aksharalu, lens[1], lens[2], "Indra")
      g3 == gana_entry(3, pure_ganas, pure_aksharalu, lens[1] + lens[2], lens[3], "Indra")
      g4 == gana_entry(4, pure_ganas, pure_aksharalu,
                       lens[1] + lens[2] + lens[3], lens[4], "Surya")
      valid_count == Cardinality({g \in {g1, g2, g3, g4} : g.valid})
  IN  [ganas |-> <<g1, g2, g3, g4>>,
       total_syllables |-> Len(pure_ganas),
       ganas_matched |-> valid_count,
       is_fully_valid |-> (valid_count = 4),
       partition_lengths |-> lens]

(* mutant of max_ganas_matched: the last of the best partitions wins *)
RECURSIVE max_ganas_matched_last(_)
max_ganas_matched_last(all_partitions) ==
  IF Len(all_partitions) = 1 THEN all_partitions[1]
  ELSE LET rest == max_ganas_matched_last(Tail(all_partitions))
       IN  IF rest.ganas_matched >= Head(all_partitions).ganas_matched
           THEN rest ELSE Head(all_partitions)

(* Python max(all_partitions, key=ganas_matched): the first greatest one *)
RECURSIVE max_first(_, _)
max_first(best, rest) ==
  IF rest = <<>> THEN best
  ELSE max_first(IF Head(rest).ganas_matched > best.ganas_matched THEN Head(rest) ELSE best,
                 Tail(rest))

max_ganas_matched(all_partitions) ==
  max_first(Head(all_partitions), Tail(all_partitions))

find_dwipada_gana_partition(markers_in, aksharalu_in) ==
  LET pure_ganas == SelectSeq(markers_in, LAMBDA g : g # "")
      pure_aksharalu == SelectSeq(aksharalu_in, LAMBDA ak : ~InCharSet(ak, ignorable_chars))
      fitting == SelectSeq(LengthCombinations,
                           LAMBDA l : l[1] + l[2] + l[3] + l[4] = Len(pure_ganas))
      all_partitions ==
        [k \in 1..Len(fitting) |-> partition_data(pure_ganas, pure_aksharalu, fitting[k])]
      valid_partitions == SelectSeq(all_partitions, LAMBDA p : p.is_fully_valid)
      partitions_tried == Len(fitting)
      best == IF valid_partitions # <<>> THEN valid_partitions[1]
              ELSE max_ganas_matched(all_partitions)
  IN  IF Len(pure_ganas) < 4 THEN None
      ELSE IF partitions_tried = 0 THEN None
      ELSE [ganas |-> best.ganas,
            total_syllables |-> best.total_syllables,
            ganas_matched |-> best.ganas_matched,
            is_fully_valid |-> best.is_fully_valid,
            partition_lengths |-> best.partition_lengths,
            all_partitions_tried |-> partitions_tried,
            valid_partitions_found |-> Len(valid_partitions)]

-----------------------------------------------------------------------------
(* Gana enumerator: class GanaAnalyzer of aksharanusarika.py *)

(* GANA_DEFINITIONS, category by category in the order of the dict *)
GANA_DEFINITIONS ==
  << (* Ekaakshara *)
     {<<"U", "Guru">>, <<"I", "Laghu">>},
     (* Rendakshara *)
     {<<"II", "Lalamu">>, <<"IU", "Lagamu (Va)">>, <<"UI", "Galamu (Ha)">>,
      <<"UU", "Gagamu">>},
     (* Moodakshara *)
     {<<"IUU", "Ya">>, <<"UUU", "Ma">>, <<"UUI", "Ta">>, <<"UIU", "Ra">>,
      <<"IUI", "Ja">>, <<"UII", "Bha">>, <<"III", "Na">>, <<"IIU", "Sa">>},
     (* Surya *)
     {<<"III", "Na">>, <<"UI", "Ha">>},
     (* Indra *)
     {<<"IIIU", "Naga">>, <<"IIUI", "Sala">>, <<"IIII", "Nala">>, <<"UII", "Bha">>,
      <<"UIU", "Ra">>, <<"UUI", "Ta">>},
     (* Chandra *)
     {<<"UIII", "Bhala">>, <<"UIIU", "Bhagaru">>, <<"UUII", "Tala">>, <<"UUIU", "Taga">>,
      <<"UUUI", "Malagha">>, <<"IIIII", "Nalala">>, <<"IIIUU", "Nagaga">>,
      <<"IIIIU", "Nava">>, <<"IIUUI", "Saha">>, <<"IIUIU", "Sava">>,
      <<"IIUUU", "Sagaga">>, <<"IIIUI", "Naha">>, <<"UIUU", "Raguru">>,
      <<"IIII", "Nala">>} >>

(* _flatten_definitions: a later category overwrites the name of a pattern *)
RECURSIVE flatten_from(_, _)
flatten_from(flat_map, k) ==
  IF k > Len(GANA_DEFINITIONS) THEN flat_map
  ELSE LET ganas == GANA_DEFINITIONS[k]
           keys == {g[1] : g \in ganas}
       IN  flatten_from(
             [p \in DOMAIN flat_map \cup keys |->
                IF p \in keys THEN (CHOOSE g \in ganas : g[1] = p)[2] ELSE flat_map[p]],
             k + 1)

flat_ganas == flatten_from(<<>>, 1)

Threads == {1, 2}

(* "".join(remaining_syllables[:i]) *)
prefix_of(remaining_syllables, i) == StrJoin(SubSeq(remaining_syllables, 1, i))

(* mutant of next_prefix: range(1, len(remaining_syllables)) *)
next_prefix_short_range(remaining_syllables, i) ==
  LET hits == {j \in i..(Len(remaining_syllables) - 1) :
                 prefix_of(remaining_syllables, j) \in DOMAIN flat_ganas}
  IN  IF hits = {} THEN 0 ELSE CHOOSE j \in hits : \A k \in hits : j <= k

(* the loop over i in range(1, len + 1): the first i from `i` on whose prefix
   is a pattern of flat_ganas, or 0 when the loop ends *)
next_prefix(remaining_syllables, i) ==
  LET hits == {j \in i..Len(remaining_syllables) :
                 prefix_of(remaining_syllables, j) \in DOMAIN flat_ganas}
  IN  IF hits = {} THEN 0 ELSE CHOOSE j \in hits : \A k \in hits : j <= k

(* a frame of _find_combinations_recursive_memoized.  at: the dictionary
   operation it is about to make ("contains", "getitem", "setitem"), or
   "call" while it waits for the recursive call on the suffix after i *)
NewFrame(remaining_syllables) ==
  [rem |-> remaining_syllables, i |-> 0, acc |-> <<>>, at |-> "contains"]

(* the frame runs its loop from i: it calls itself on the next suffix, or
   the loop is over and it is about to write the memo *)
run_loop(stack, frame, i) ==
  LET j == next_prefix(frame.rem, i)
  IN  IF j = 0
      THEN Append(stack, [frame EXCEPT !.at = "setitem"])
      ELSE Append(Append(stack, [frame EXCEPT !.i = j, !.at = "call"]),
                  NewFrame(SubSeq(frame.rem, j + 1, Len(frame.rem))))

(* lines 306-310: the caller appends [gana_info] + combo for every combo *)
extend(frame, suffix_combinations) ==
  LET prefix == prefix_of(frame.rem, frame.i)
      gana_info == [name |-> flat_ganas[prefix], pattern |-> prefix]
  IN  frame.acc \o [c \in 1..Len(suffix_combinations) |->
                      <<gana_info>> \o suffix_combinations[c]]

(* the top frame returns value: the thread after the return *)
return_value(thread, value) ==
  LET below == SubSeq(thread.stack, 1, Len(thread.stack) - 1)
  IN  IF below = <<>>
      THEN [thread EXCEPT !.status = "returned", !.stack = <<>>, !.result = value]
      ELSE LET caller == below[Len(below)]
               grown == [caller EXCEPT !.acc = extend(caller, value)]
           IN  [thread EXCEPT !.stack =
                  run_loop(SubSeq(below, 1, Len(below) - 1), grown, caller.i + 1)]

IdleThread(todo) ==
  [status |-> "idle", todo |-> todo, input |-> <<>>, stack |-> <<>>, result |-> <<>>]

EnumIdle ==
  /\ memo = <<>>
  /\ th = [t \in Threads |-> IdleThread(<<>>)]

(* mutant of FindSequentialCombinations: self.memo is not reset *)
FindSequentialCombinations_no_reset(t) ==
  /\ th[t].status \in {"idle", "returned"}
  /\ th[t].todo # <<>>
  /\ memo' = memo
  /\ th' = [th EXCEPT ![t] =
              [status |-> "running", todo |-> Tail(@.todo), input |-> Head(@.todo),
               stack |-> <<NewFrame(Head(@.todo))>>, result |-> <<>>]]
  /\ UNCHANGED <<pc, segVars, partVars, yatiVars, prasaVars, simVars, scoreVars, coupletVars, reportVars, crawlVars, fetchVars>>

(* find_sequential_combinations: self.memo = {} and the call of the recursion *)
FindSequentialCombinations(t) ==
  /\ th[t].status \in {"idle", "returned"}
  /\ th[t].todo # <<>>
  /\ memo' = <<>>
  /\ th' = [th EXCEPT ![t] =
              [status |-> "running", todo |-> Tail(@.todo), input |-> Head(@.todo),
               stack |-> <<NewFrame(Head(@.todo))>>, result |-> <<>>]]
  /\ UNCHANGED <<pc, segVars, partVars, yatiVars, prasaVars, simVars, scoreVars, coupletVars, reportVars, crawlVars, fetchVars>>

(* `if key in self.memo`, and when it is not: `if not remaining_syllables:
   return [[]]`, else the loop up to the first recursive call *)
MemoContains(t) ==
  /\ th[t].status = "running"
  /\ LET stack == th[t].stack
         top == stack[Len(stack)]
         below == SubSeq(stack, 1, Len(stack) - 1)
     IN  /\ top.at = "contains"
         /\ th' = [th EXCEPT ![t] =
                     IF top.rem \in DOMAIN memo
                     THEN [@ EXCEPT !.stack = Append(below, [top EXCEPT !.at = "getitem"])]
                     ELSE IF top.rem = <<>>
                          THEN return_value(@, << <<>> >>)
                          ELSE [@ EXCEPT !.stack = run_loop(below, top, 1)]]
  /\ UNCHANGED <<memo, pc, segVars, partVars, yatiVars, prasaVars, simVars, scoreVars, coupletVars, reportVars, crawlVars, fetchVars>>

(* `return self.memo[key]`: KeyError when the key is not in the dictionary
   that self.memo names now *)
MemoGetItem(t) ==
  /\ th[t].status = "running"
  /\ LET stack == th[t].stack
         top == stack[Len(stack)]
     IN  /\ top.at = "getitem"
         /\ th' = [th EXCEPT ![t] =
                     IF top.rem \in DOMAIN memo
                     THEN return_value(@, memo[top.rem])
                     ELSE [@ EXCEPT !.status = "raised", !.stack = <<>>]]
  /\ UNCHANGED <<memo, pc, segVars, partVars, yatiVars, prasaVars, simVars, scoreVars, coupletVars, reportVars, crawlVars, fetchVars>>

(* `self.memo[key] = all_possible_partitions; return all_possible_partitions` *)
MemoSetItem(t) ==
  /\ th[t].status = "running"
  /\ LET stack == th[t].stack
         top == stack[Len(stack)]
     IN  /\ top.at = "setitem"
         /\ memo' = [k \in DOMAIN memo \cup {top.rem} |->
                       IF k = top.rem THEN top.acc ELSE memo[k]]
         /\ th' = [th EXCEPT ![t] = return_value(@, top.acc)]
  /\ UNCHANGED <<pc, segVars, partVars, yatiVars, prasaVars, simVars, scoreVars, coupletVars, reportVars, crawlVars, fetchVars>>

-----------------------------------------------------------------------------
(* Yati matcher of dwipada_analyzer.py *)

(* Python None, where a str is expected *)
NoneStr == <<"<None>">>

(* Python None, where a list of letters is expected *)
NoneMembers == {NoneStr}

(* Python None, where a group index is expected *)
NoneIndex == -2

(* Python `not s` for an optional str: None or the empty string *)
IsFalsy(s) == s = NoneStr \/ s = <<>>

YATI_MAITRI_GROUPS ==
  << {<<"a">>, <<"aa">>, <<"ai">>, <<"au">>, <<"ha">>, <<"ya">>, <<"a", "M">>, <<"a", "H">>},
     {<<"i">>, <<"ii">>, <<"e">>, <<"ee">>, <<"R">>},
     {<<"u">>, <<"uu">>, <<"o">>, <<"oo">>},
     {<<"ka">>, <<"kha">>, <<"ga">>, <<"gha">>, <<"ka", "~", "Sa">>},
     {<<"ca">>, <<"cha">>, <<"ja">>, <<"jha">>, <<"sha">>, <<"Sa">>, <<"sa">>},
     {<<"Ta">>, <<"Tha">>, <<"Da">>, <<"Dha">>},
     {<<"ta">>, <<"tha">>, <<"da">>, <<"dha">>},
     {<<"pa">>, <<"pha">>, <<"ba">>, <<"bha">>, <<"va">>},
     {<<"ra">>, <<"la">>, <<"Ra">>, <<"La">>},
     {<<"na">>, <<"Na">>},
     {<<"ma">>, <<"pa", "-u">>, <<"pha", "-u">>, <<"ba", "-u">>, <<"bha", "-u">>,
      <<"ma", "-u">>} >>

(* CONSONANT_VARGAS, in the order of the dict *)
CONSONANT_VARGAS ==
  << <<"ka-vargamu (Velar)", {"ka", "kha", "ga", "gha", "nga"}>>,
     <<"ca-vargamu (Palatal)", {"ca", "cha", "ja", "jha", "nya", "sha", "Sa", "sa"}>>,
     <<"Ta-vargamu (Retroflex)", {"Ta", "Tha", "Da", "Dha", "Na"}>>,
     <<"ta-vargamu (Dental)", {"ta", "tha", "da", "dha", "na"}>>,
     <<"pa-vargamu (Labial)", {"pa", "pha", "ba", "bha", "ma"}>>,
     <<"ya-vargamu (Approximant)", {"ya", "ra", "la", "va", "La", "Ra"}>>,
     <<"ha-vargamu (Aspirate)", {"ha"}>> >>

(* mutant of get_consonant_varga: the table lacks the dental varga *)
get_consonant_varga_no_dental(consonant) ==
  IF IsFalsy(consonant) THEN NoneName
  ELSE LET hits == {k \in (1..Len(CONSONANT_VARGAS)) \ {4} :
                      InCharSet(consonant, CONSONANT_VARGAS[k][2])}
       IN  IF hits = {} THEN NoneName
           ELSE CONSONANT_VARGAS[CHOOSE k \in hits : \A j \in hits : k <= j][1]

get_consonant_varga(consonant) ==
  IF IsFalsy(consonant) THEN NoneName
  ELSE LET hits == {k \in 1..Len(CONSONANT_VARGAS) :
                      InCharSet(consonant, CONSONANT_VARGAS[k][2])}
       IN  IF hits = {} THEN NoneName
           ELSE CONSONANT_VARGAS[CHOOSE k \in hits : \A j \in hits : k <= j][1]

(* the indices (from 0, ascending) of the groups that hold the letter *)
RECURSIVE groups_of(_, _)
groups_of(letter, idx) ==
  IF idx >= Len(YATI_MAITRI_GROUPS) THEN <<>>
  ELSE (IF letter \in YATI_MAITRI_GROUPS[idx + 1] THEN <<idx>> ELSE <<>>)
       \o groups_of(letter, idx + 1)

get_letter_info(letter) ==
  IF IsFalsy(letter)
  THEN [letter |-> letter, type |-> "unknown", varga |-> NoneName,
        yati_groups |-> <<>>, yati_group_members |-> {}]
  ELSE LET is_vowel == InCharSet(letter, independent_vowels)
                       \/ InCharSet(letter, dependent_vowels)
           is_consonant == ~is_vowel /\ InCharSet(letter, telugu_consonants)
           groups == groups_of(letter, 0)
       IN  [letter |-> letter,
            type |-> IF is_vowel THEN "vowel"
                     ELSE IF is_consonant THEN "consonant" ELSE "unknown",
            varga |-> IF is_consonant THEN get_consonant_varga(letter) ELSE NoneName,
            yati_groups |-> groups,
            yati_group_members |->
              UNION {YATI_MAITRI_GROUPS[groups[k] + 1] : k \in 1..Len(groups)}]

(* what a missing letter info is *)
NoneInfo == [is_none |-> TRUE]

(* the index (from 0) of the first group that holds both letters, or NoneIndex *)
first_common_group(l1, l2) ==
  LET hits == {idx \in 0..(Len(YATI_MAITRI_GROUPS) - 1) :
                 l1 \in YATI_MAITRI_GROUPS[idx + 1] /\ l2 \in YATI_MAITRI_GROUPS[idx + 1]}
  IN  IF hits = {} THEN NoneIndex ELSE CHOOSE idx \in hits : \A j \in hits : idx <= j

yati_details(l1, l2, quality_score, match_type, with_info, members) ==
  [letter1 |-> l1, letter2 |-> l2,
   quality_score |-> quality_score,
   match_type |-> match_type,
   letter1_info |-> IF with_info THEN get_letter_info(l1) ELSE NoneInfo,
   letter2_info |-> IF with_info THEN get_letter_info(l2) ELSE NoneInfo,
   matching_group_members |-> members]

(* mutant of check_yati_maitri: the groups are looked up before the exact match *)
check_yati_maitri_group_first(l1, l2) ==
  IF IsFalsy(l1) \/ IsFalsy(l2)
  THEN [is_match |-> FALSE, group_index |-> NoneIndex,
        details |-> yati_details(l1, l2, 0, "no_match", FALSE, NoneMembers)]
  ELSE LET idx == first_common_group(l1, l2)
       IN  IF idx # NoneIndex
           THEN [is_match |-> TRUE, group_index |-> idx,
                 details |-> yati_details(l1, l2, 70, "varga_match", TRUE,
                                          YATI_MAITRI_GROUPS[idx + 1])]
           ELSE IF l1 = l2
           THEN [is_match |-> TRUE, group_index |-> -1,
                 details |-> yati_details(l1, l2, 100, "exact", TRUE, NoneMembers)]
           ELSE [is_match |-> FALSE, group_index |-> NoneIndex,
                 details |-> yati_details(l1, l2, 0, "no_match", TRUE, NoneMembers)]

(* the returned tuple (is_match, group_index, details) as a record *)
check_yati_maitri(l1, l2) ==
  IF IsFalsy(l1) \/ IsFalsy(l2)
  THEN [is_match |-> FALSE, group_index |-> NoneIndex,
        details |-> yati_details(l1, l2, 0, "no_match", FALSE, NoneMembers)]
  ELSE IF l1 = l2
  THEN [is_match |-> TRUE, group_index |-> -1,
        details |-> yati_details(l1, l2, 100, "exact", TRUE, NoneMembers)]
  ELSE LET idx == first_common_group(l1, l2)
       IN  IF idx # NoneIndex
           THEN [is_match |-> TRUE, group_index |-> idx,
                 details |-> yati_details(l1, l2, 70, "varga_match", TRUE,
                                          YATI_MAITRI_GROUPS[idx + 1])]
           ELSE [is_match |-> FALSE, group_index |-> NoneIndex,
                 details |-> yati_details(l1, l2, 0, "no_match", TRUE, NoneMembers)]

YatiIdle ==
  /\ letter1 = NoneStr
  /\ letter2 = NoneStr
  /\ yati = None

-----------------------------------------------------------------------------
(* Prasa matcher of dwipada_analyzer.py.  A message is written as its
   template and the values put into it. *)

get_base_consonant(aksharam) ==
  IF aksharam = <<>> THEN NoneStr
  ELSE IF aksharam[1] \in telugu_consonants THEN <<aksharam[1]>>
  ELSE NoneStr

get_first_letter(aksharam) ==
  IF aksharam = <<>> THEN NoneStr ELSE <<aksharam[1]>>

IMPLICIT_A == <<"a", "SP", "(implicit)">>

(* dependent_vowels is a set, walked in an order the language does not fix:
   the outcomes are all the dependent vowels the aksharam holds *)
extract_vowel_from_aksharam(aksharam) ==
  IF aksharam = <<>> THEN {<<>>}
  ELSE LET held == {dv \in dependent_vowels : HasChar(aksharam, dv)}
       IN  IF held # {} THEN {<<dv>> : dv \in held}
           ELSE IF aksharam[1] \in independent_vowels THEN {<<aksharam[1]>>}
           ELSE {IMPLICIT_A}

generate_prasa_mismatch_explanation(cons1, cons2, varga1, varga2) ==
  IF IsFalsy(cons1) \/ IsFalsy(cons2)
  THEN [template |-> "One or both lines don't have a valid consonant in 2nd position",
        args |-> <<>>]
  ELSE IF varga1 # NoneName /\ varga2 # NoneName
  THEN IF varga1 = varga2
       THEN [template |-> "are from same varga but prasa requires exact match",
             args |-> <<cons1, cons2, <<varga1>> >>]
       ELSE [template |-> "are from different vargas",
             args |-> <<cons1, <<varga1>>, cons2, <<varga2>> >>]
  ELSE [template |-> "do not match - prasa requires identical consonants",
        args |-> <<cons1, cons2>>]

generate_prasa_suggestion(consonant) ==
  IF IsFalsy(consonant)
  THEN [template |-> "Unable to generate suggestion - no valid consonant found",
        args |-> <<>>]
  ELSE [template |-> "Line 2 needs 2nd syllable with consonant (e.g., ...)",
        args |-> <<consonant, consonant, consonant \o <<"-aa">>, consonant \o <<"-i">>,
                   consonant \o <<"-ii">>, consonant \o <<"-u">> >>]

(* the aksharalu of a line that are not ignorable characters *)
pure_aksharalu(line) ==
  SelectSeq(DA_split_aksharalu(line), LAMBDA ak : ~InCharSet(ak, ignorable_chars))

full_breakdown(aksharam, consonant, vowel, varga) ==
  [aksharam |-> aksharam, consonant |-> consonant, vowel |-> vowel,
   consonant_varga |-> varga]

(* mutant of prasa_verdict: the consonants are compared with no test that
   they are there *)
prasa_verdict_plain_equality(second_ak1, second_ak2, vowel1, vowel2) ==
  LET consonant1 == get_base_consonant(second_ak1)
      consonant2 == get_base_consonant(second_ak2)
      is_match == consonant1 = consonant2
      varga1 == IF ~IsFalsy(consonant1) THEN get_consonant_varga(consonant1) ELSE NoneName
      varga2 == IF ~IsFalsy(consonant2) THEN get_consonant_varga(consonant2) ELSE NoneName
  IN  [is_match |-> is_match,
       details |->
         [line1_second_aksharam |-> second_ak1,
          line1_consonant |-> consonant1,
          line2_second_aksharam |-> second_ak2,
          line2_consonant |-> consonant2,
          match |-> is_match,
          mismatch_details |->
            IF is_match THEN None
            ELSE [line1_full_breakdown |->
                    full_breakdown(second_ak1, consonant1, vowel1, varga1),
                  line2_full_breakdown |->
                    full_breakdown(second_ak2, consonant2, vowel2, varga2),
                  why_mismatch |->
                    generate_prasa_mismatch_explanation(consonant1, consonant2,
                                                        varga1, varga2),
                  suggestion |-> generate_prasa_suggestion(consonant1)]]]

(* the verdict on the second aksharalu of two lines long enough; the vowels
   are only read when the consonants do not match *)
prasa_verdict(second_ak1, second_ak2, vowel1, vowel2) ==
  LET consonant1 == get_base_consonant(second_ak1)
      consonant2 == get_base_consonant(second_ak2)
      is_match == IF ~IsFalsy(consonant1) /\ ~IsFalsy(consonant2)
                  THEN consonant1 = consonant2 ELSE FALSE
      varga1 == IF ~IsFalsy(consonant1) THEN get_consonant_varga(consonant1) ELSE NoneName
      varga2 == IF ~IsFalsy(consonant2) THEN get_consonant_varga(consonant2) ELSE NoneName
  IN  [is_match |-> is_match,
       details |->
         [line1_second_aksharam |-> second_ak1,
          line1_consonant |-> consonant1,
          line2_second_aksharam |-> second_ak2,
          line2_consonant |-> consonant2,
          match |-> is_match,
          mismatch_details |->
            IF is_match THEN None
            ELSE [line1_full_breakdown |->
                    full_breakdown(second_ak1, consonant1, vowel1, varga1),
                  line2_full_breakdown |->
                    full_breakdown(second_ak2, consonant2, vowel2, varga2),
                  why_mismatch |->
                    generate_prasa_mismatch_explanation(consonant1, consonant2,
                                                        varga1, varga2),
                  suggestion |-> generate_prasa_suggestion(consonant1)]]]

(* the vowels read for the breakdown of a mismatch; none is read on a match *)
breakdown_vowels(aksharam, other) ==
  IF ~IsFalsy(get_base_consonant(aksharam))
     /\ get_base_consonant(aksharam) = get_base_consonant(other)
  THEN {NoneStr}
  ELSE extract_vowel_from_aksharam(aksharam)

(* mutant of check_prasa: lines too short get an ordinary mismatch verdict *)
check_prasa_short_is_mismatch(l1, l2) ==
  LET pure1 == pure_aksharalu(l1)
      pure2 == pure_aksharalu(l2)
      ak1 == IF Len(pure1) < 2 THEN <<>> ELSE pure1[2]
      ak2 == IF Len(pure2) < 2 THEN <<>> ELSE pure2[2]
  IN  {prasa_verdict(ak1, ak2, vowel1, vowel2) :
         vowel1 \in breakdown_vowels(ak1, ak2),
         vowel2 \in breakdown_vowels(ak2, ak1)}

(* the outcomes of check_prasa: each the returned tuple (is_match, details)
   as a record *)
check_prasa(l1, l2) ==
  LET pure1 == pure_aksharalu(l1)
      pure2 == pure_aksharalu(l2)
  IN  IF Len(pure1) < 2 \/ Len(pure2) < 2
      THEN {[is_match |-> FALSE,
             details |-> [error |-> "Lines too short - need at least 2 aksharalu each"]]}
      ELSE {prasa_verdict(pure1[2], pure2[2], vowel1, vowel2) :
              vowel1 \in breakdown_vowels(pure1[2], pure2[2]),
              vowel2 \in breakdown_vowels(pure2[2], pure1[2])}

PrasaIdle ==
  /\ line1 = <<>>
  /\ line2 = <<>>
  /\ prasa = None

-----------------------------------------------------------------------------
(* Similarity layer of aksharanusarika.py.  A ratio is written as its
   numerator and denominator. *)

Ratio(n, d) == [num |-> n, den |-> d]

(* 1.0 - similarity *)
OneMinus(r) == Ratio(r.den - r.num, r.den)

(* characters outside the Telugu block that are not whitespace *)
foreign_chars == {"x"}

(* re.sub: every run of characters that are neither of the Telugu block nor
   whitespace is dropped *)
sanitize(word) == SelectSeq(word, LAMBDA ch : ch \notin foreign_chars)

(* analyze_telugu_word: the fields compare_telugu_words reads *)
analyze_telugu_word(word) ==
  LET sanitized == sanitize(word)
      aksharalu_list == split_aksharalu(sanitized)
      counted == {k \in 1..Len(aksharalu_list) :
                    ~InCharSet(aksharalu_list[k], ignorable_chars)}
  IN  [word |-> sanitized,
       aksharaluList |-> aksharalu_list,
       tags |-> UNION {categorize_aksharam(aksharalu_list[k]) : k \in counted}]

(* [m for m in markers if m] *)
pure_markers(ganam_markers) == SelectSeq(ganam_markers, LAMBDA m : m # "")

get_bigrams(ganam_markers) ==
  LET pure == pure_markers(ganam_markers)
  IN  IF Len(pure) < 2 THEN {}
      ELSE {pure[i] \o pure[i + 1] : i \in 1..(Len(pure) - 1)}

(* mutant of calculate_gana_jaccard: an empty union gives similarity 0 *)
calculate_gana_jaccard_empty_zero(markers1, markers2) ==
  LET bigrams1 == get_bigrams(markers1)
      bigrams2 == get_bigrams(markers2)
      intersection == bigrams1 \cap bigrams2
      union == bigrams1 \cup bigrams2
      similarity == IF Cardinality(union) > 0
                    THEN Ratio(Cardinality(intersection), Cardinality(union))
                    ELSE Ratio(0, 1)
  IN  [similarity |-> similarity, distance |-> OneMinus(similarity)]

calculate_gana_jaccard(markers1, markers2) ==
  LET bigrams1 == get_bigrams(markers1)
      bigrams2 == get_bigrams(markers2)
      intersection == bigrams1 \cap bigrams2
      union == bigrams1 \cup bigrams2
      similarity == IF Cardinality(union) > 0
                    THEN Ratio(Cardinality(intersection), Cardinality(union))
                    ELSE Ratio(1, 1)
  IN  [similarity |-> similarity, distance |-> OneMinus(similarity)]

(* dp[i][j] once the table is filled: the length of the common run that ends
   at seq1[i - 1] and seq2[j - 1] *)
RECURSIVE dp(_, _, _, _)
dp(s1, s2, i, j) ==
  IF i = 0 \/ j = 0 THEN 0
  ELSE IF s1[i] = s2[j] THEN dp(s1, s2, i - 1, j - 1) + 1
  ELSE 0

(* mutant of lcs_scan: `>=` for `>`, the last run of the greatest length *)
RECURSIVE lcs_scan_last(_, _, _, _, _, _)
lcs_scan_last(s1, s2, i, j, max_length, end_index) ==
  IF i > Len(s1) THEN [max_length |-> max_length, end_index |-> end_index]
  ELSE IF j > Len(s2) THEN lcs_scan_last(s1, s2, i + 1, 1, max_length, end_index)
  ELSE IF dp(s1, s2, i, j) > 0 /\ dp(s1, s2, i, j) >= max_length
       THEN lcs_scan_last(s1, s2, i, j + 1, dp(s1, s2, i, j), i)
       ELSE lcs_scan_last(s1, s2, i, j + 1, max_length, end_index)

(* the loops over i in 1..m and j in 1..n, from cell (i, j) on *)
RECURSIVE lcs_scan(_, _, _, _, _, _)
lcs_scan(s1, s2, i, j, max_length, end_index) ==
  IF i > Len(s1) THEN [max_length |-> max_length, end_index |-> end_index]
  ELSE IF j > Len(s2) THEN lcs_scan(s1, s2, i + 1, 1, max_length, end_index)
  ELSE IF dp(s1, s2, i, j) > max_length
       THEN lcs_scan(s1, s2, i, j + 1, dp(s1, s2, i, j), i)
       ELSE lcs_scan(s1, s2, i, j + 1, max_length, end_index)

find_longest_common_substring(s1, s2) ==
  LET found == lcs_scan(s1, s2, 1, 1, 0, 0)
  IN  IF found.max_length = 0 THEN <<>>
      ELSE SubSeq(s1, found.end_index - found.max_length + 1, found.end_index)

(* compare_telugu_words: the comparison it returns, without the sorted tag
   lists *)
compare_telugu_words(w1, w2) ==
  LET analysis1 == analyze_telugu_word(w1)
      analysis2 == analyze_telugu_word(w2)
      common_tags == analysis1.tags \cap analysis2.tags
      all_tags_union == analysis1.tags \cup analysis2.tags
      jaccard_similarity == IF Cardinality(all_tags_union) > 0
                            THEN Ratio(Cardinality(common_tags),
                                       Cardinality(all_tags_union))
                            ELSE Ratio(0, 1)
      gana_markers1 == akshara_ganavibhajana(analysis1.aksharaluList)
      gana_markers2 == akshara_ganavibhajana(analysis2.aksharaluList)
  IN  [tags1 |-> analysis1.tags,
       tags2 |-> analysis2.tags,
       ganaMarkers1 |-> gana_markers1,
       ganaMarkers2 |-> gana_markers2,
       jaccardSimilarity |-> jaccard_similarity,
       jaccardDistance |-> OneMinus(jaccard_similarity),
       ganaJaccard |-> calculate_gana_jaccard(gana_markers1, gana_markers2),
       lcs |-> find_longest_common_substring(pure_markers(gana_markers1),
                                             pure_markers(gana_markers2))]

SimIdle ==
  /\ word1 = <<>>
  /\ word2 = <<>>
  /\ comparison = None
  /\ seq1 = <<>>
  /\ seq2 = <<>>
  /\ lcs = <<>>

-----------------------------------------------------------------------------
(* Scoring helpers of dwipada_analyzer.py.  A sub-score is written as a whole
   number of percent; an average and the overall score, which the code rounds
   to one decimal, as a whole number of tenths of a percent. *)

(* SCORE_WEIGHTS, in hundredths *)
SCORE_WEIGHTS == [gana |-> 40, prasa |-> 35, yati |-> 25]

(* dict.get(key, default) *)
Get(dict, key, default) == IF key \in DOMAIN dict THEN dict[key] ELSE default

(* round(x, 1) in tenths, for x = n / (10 * d): n / d to the nearest whole
   number, a tie to the even one *)
round_tenths(n, d) ==
  LET q == n \div d
      r == n % d
  IN  IF 2 * r > d \/ (2 * r = d /\ q % 2 = 1) THEN q + 1 ELSE q

(* a gana counts when its name is not None; (valid_count / 4) * 100.0 *)
calculate_gana_score(partition_result) ==
  IF partition_result = None \/ "ganas" \notin DOMAIN partition_result
  THEN [score |-> 0, ganas_matched |-> 0, ganas_total |-> 4, details |-> <<>>]
  ELSE LET ganas == partition_result.ganas
           is_valid(i) == ganas[i].name # NoneName
           valid_count == Cardinality({i \in 1..Len(ganas) : is_valid(i)})
       IN  [score |-> valid_count * 25,
            ganas_matched |-> valid_count,
            ganas_total |-> 4,
            details |-> [i \in 1..Len(ganas) |->
                           [position |-> i, type |-> ganas[i].type,
                            pattern |-> ganas[i].pattern, name |-> ganas[i].name,
                            valid |-> is_valid(i),
                            aksharalu |-> ganas[i].aksharalu]]]

calculate_prasa_score(prasa_result) ==
  IF prasa_result = None
  THEN [score |-> 0, match |-> FALSE, mismatch_details |-> None]
  ELSE LET is_match == Get(prasa_result, "match", FALSE)
           cons1 == Get(prasa_result, "line1_consonant", NoneStr)
           cons2 == Get(prasa_result, "line2_consonant", NoneStr)
           varga1 == IF ~IsFalsy(cons1) THEN get_consonant_varga(cons1) ELSE NoneName
           varga2 == IF ~IsFalsy(cons2) THEN get_consonant_varga(cons2) ELSE NoneName
       IN  [score |-> IF is_match THEN 100 ELSE 0,
            match |-> is_match,
            mismatch_details |->
              IF is_match THEN None
              ELSE [line1_full_breakdown |->
                      [aksharam |-> Get(prasa_result, "line1_second_aksharam", NoneStr),
                       consonant |-> cons1, consonant_varga |-> varga1],
                    line2_full_breakdown |->
                      [aksharam |-> Get(prasa_result, "line2_second_aksharam", NoneStr),
                       consonant |-> cons2, consonant_varga |-> varga2],
                    why_mismatch |->
                      generate_prasa_mismatch_explanation(cons1, cons2, varga1, varga2),
                    suggestion |-> generate_prasa_suggestion(cons1)]]

generate_yati_explanation(l1, l2, is_match, info1, info2) ==
  IF IsFalsy(l1) \/ IsFalsy(l2)
  THEN [template |-> "Unable to determine yati - missing letter information",
        args |-> <<>>]
  ELSE IF l1 = l2
  THEN [template |-> "Exact match: both positions have -> MATCH (100%)", args |-> <<l1>>]
  ELSE IF is_match
  THEN [template |-> "belong to same Yati Maitri group -> MATCH (70%)",
        args |-> <<l1, l2, info1.yati_group_members>>]
  ELSE IF info1.varga # NoneName /\ info2.varga # NoneName
  THEN [template |-> "is in, is in -> NO MATCH",
        args |-> <<l1, <<info1.varga>>, l2, <<info2.varga>> >>]
  ELSE [template |-> "are not in the same Yati Maitri group -> NO MATCH",
        args |-> <<l1, l2>>]

generate_yati_suggestion(letter, info) ==
  IF IsFalsy(letter) \/ info = NoneInfo
  THEN [template |-> "Unable to generate suggestion", args |-> <<>>]
  ELSE IF info.yati_group_members # {}
  THEN [template |-> "1st syllable of 3rd gana should start with:",
        args |-> <<info.yati_group_members>>]
  ELSE [template |-> "1st syllable of 3rd gana should start with or related letters",
        args |-> <<letter>>]

calculate_yati_score(yati_result) ==
  IF yati_result = None
  THEN [score |-> 0, quality |-> "no_match", mismatch_details |-> None]
  ELSE LET l1 == yati_result.first_gana_letter
           l2 == yati_result.third_gana_letter
           is_match == yati_result.match
           info1 == IF ~IsFalsy(l1) THEN get_letter_info(l1) ELSE NoneInfo
           info2 == IF ~IsFalsy(l2) THEN get_letter_info(l2) ELSE NoneInfo
       IN  [score |-> IF is_match THEN (IF l1 = l2 THEN 100 ELSE 70) ELSE 0,
            quality |-> IF is_match THEN (IF l1 = l2 THEN "exact" ELSE "varga_match")
                        ELSE "no_match",
            mismatch_details |->
              [letter1_info |-> info1,
               letter2_info |-> info2,
               why_result |-> generate_yati_explanation(l1, l2, is_match, info1, info2),
               suggestion |-> IF ~is_match THEN generate_yati_suggestion(l1, info1)
                              ELSE [template |-> "<None>", args |-> <<>>]]]

(* mutant of calculate_overall_score: the gana scores of the two lines are
   added, not averaged *)
calculate_overall_score_no_average(gana_score1, gana_score2, prasa_score, yati_score1, yati_score2) ==
  LET gana1 == Get(gana_score1, "score", 0)
      gana2 == Get(gana_score2, "score", 0)
      prasa_pct == Get(prasa_score, "score", 0)
      yati1 == Get(yati_score1, "score", 0)
      yati2 == Get(yati_score2, "score", 0)
  IN  [overall_tenths |->
         round_tenths(2 * (gana1 + gana2) * SCORE_WEIGHTS.gana
                        + 2 * prasa_pct * SCORE_WEIGHTS.prasa
                        + (yati1 + yati2) * SCORE_WEIGHTS.yati, 20),
       breakdown |->
         [gana_line1 |-> gana1, gana_line2 |-> gana2,
          gana_average_tenths |-> round_tenths(10 * (gana1 + gana2), 1),
          prasa |-> prasa_pct,
          yati_line1 |-> yati1, yati_line2 |-> yati2,
          yati_average_tenths |-> round_tenths(10 * (yati1 + yati2), 2)],
       weights |-> SCORE_WEIGHTS]

(* overall = round(avg_gana * 0.40 + prasa * 0.35 + avg_yati * 0.25, 1) with
   avg = (line 1 + line 2) / 2: in tenths,
   ((gana1 + gana2) * 40 + 2 * prasa * 35 + (yati1 + yati2) * 25) / 20 *)
calculate_overall_score(gana_score1, gana_score2, prasa_score, yati_score1, yati_score2) ==
  LET gana1 == Get(gana_score1, "score", 0)
      gana2 == Get(gana_score2, "score", 0)
      prasa_pct == Get(prasa_score, "score", 0)
      yati1 == Get(yati_score1, "score", 0)
      yati2 == Get(yati_score2, "score", 0)
  IN  [overall_tenths |->
         round_tenths((gana1 + gana2) * SCORE_WEIGHTS.gana
                        + 2 * prasa_pct * SCORE_WEIGHTS.prasa
                        + (yati1 + yati2) * SCORE_WEIGHTS.yati, 20),
       breakdown |->
         [gana_line1 |-> gana1, gana_line2 |-> gana2,
          gana_average_tenths |-> round_tenths(10 * (gana1 + gana2), 2),
          prasa |-> prasa_pct,
          yati_line1 |-> yati1, yati_line2 |-> yati2,
          yati_average_tenths |-> round_tenths(10 * (yati1 + yati2), 2)],
       weights |-> SCORE_WEIGHTS]

-----------------------------------------------------------------------------
(* Couplet analysis of dwipada_analyzer.py *)

(* the characters str.strip() takes away *)
whitespace == {"SP", "NL"}

RECURSIVE lstrip(_)
lstrip(str) ==
  IF str # <<>> /\ Head(str) \in whitespace THEN lstrip(Tail(str)) ELSE str

RECURSIVE rstrip(_)
rstrip(str) ==
  IF str # <<>> /\ str[Len(str)] \in whitespace
  THEN rstrip(SubSeq(str, 1, Len(str) - 1)) ELSE str

strip(str) == rstrip(lstrip(str))

(* str.split('\n'): the pieces between the newlines, `piece` the one begun *)
RECURSIVE split_newline(_, _)
split_newline(str, piece) ==
  IF str = <<>> THEN <<piece>>
  ELSE IF Head(str) = "NL" THEN <<piece>> \o split_newline(Tail(str), <<>>)
  ELSE split_newline(Tail(str), Append(piece, Head(str)))

(* [l.strip() for l in poem.strip().split('\n') if l.strip()] *)
poem_lines(text_in) ==
  LET pieces == split_newline(strip(text_in), <<>>)
      stripped == [k \in 1..Len(pieces) |-> strip(pieces[k])]
  IN  SelectSeq(stripped, LAMBDA l : l # <<>>)

(* the dictionary analyze_pada returns, from its local variables *)
pada_result(line, aks, ganam_markers, part) ==
  LET pure_aks == SelectSeq(aks, LAMBDA ak : ~InCharSet(ak, ignorable_chars))
      pure_ganas == SelectSeq(ganam_markers, LAMBDA g : g # "")
      first_aksharam == IF Len(pure_aks) > 0 THEN pure_aks[1] ELSE NoneStr
      second_aksharam == IF Len(pure_aks) > 1 THEN pure_aks[2] ELSE NoneStr
      third_gana_first_letter ==
        IF part # None /\ Len(part.ganas) >= 3 /\ part.ganas[3].aksharalu # <<>>
        THEN get_first_letter(part.ganas[3].aksharalu[1])
        ELSE NoneStr
  IN  [line |-> line,
       aksharalu |-> pure_aks,
       gana_markers |-> pure_ganas,
       gana_string |-> StrJoin(pure_ganas),
       partition |-> part,
       first_aksharam |-> first_aksharam,
       second_aksharam |-> second_aksharam,
       first_letter |-> IF ~IsFalsy(first_aksharam)
                        THEN get_first_letter(first_aksharam) ELSE NoneStr,
       second_consonant |-> IF ~IsFalsy(second_aksharam)
                            THEN get_base_consonant(second_aksharam) ELSE NoneStr,
       third_gana_first_letter |-> third_gana_first_letter,
       is_valid_gana_sequence |-> (part # None)]

(* analyze_pada from the gana markers on: the partition of the line *)
pada_of_markers(line, aks, ganam_markers) ==
  pada_result(line, aks, ganam_markers, find_dwipada_gana_partition(ganam_markers, aks))

(* analyze_pada from the aksharalu on: their gana markers *)
pada_of_aksharalu(line, aks) ==
  pada_of_markers(line, aks, DA_akshara_ganavibhajana(aks))

(* analyze_pada from the stripped line on: its aksharalu *)
pada_of_line(line) == pada_of_aksharalu(line, DA_split_aksharalu(line))

analyze_pada(line_in) == pada_of_line(strip(line_in))

(* yati_line1 / yati_line2 of analyze_dwipada: None when a letter is missing *)
yati_of_pada(pada) ==
  IF ~IsFalsy(pada.first_letter) /\ ~IsFalsy(pada.third_gana_first_letter)
  THEN LET checked == check_yati_maitri(pada.first_letter, pada.third_gana_first_letter)
       IN  [first_gana_letter |-> pada.first_letter,
            third_gana_letter |-> pada.third_gana_first_letter,
            match |-> checked.is_match,
            group_index |-> checked.group_index,
            quality_score |-> checked.details.quality_score,
            match_type |-> checked.details.match_type,
            mismatch_details |-> checked.details]
  ELSE None

(* the dictionary analyze_dwipada returns, from its local variables; a match
   that may be None is written as a sequence of at most one value *)
couplet_result(pada1, pada2, prasa_result, yati_line1, yati_line2, gana_score1, gana_score2, prasa_score_result, yati_score1, yati_score2, overall) ==
  LET is_valid == /\ pada1.is_valid_gana_sequence
                  /\ pada2.is_valid_gana_sequence
                  /\ prasa_result.is_match
                  /\ (yati_line1 = None \/ yati_line1.match)
                  /\ (yati_line2 = None \/ yati_line2.match)
  IN  [pada1 |-> pada1,
       pada2 |-> pada2,
       prasa |-> prasa_result.details,
       yati_line1 |-> yati_line1,
       yati_line2 |-> yati_line2,
       is_valid_dwipada |-> is_valid,
       match_score |->
         [overall_tenths |-> overall.overall_tenths,
          breakdown |-> overall.breakdown,
          weights |-> overall.weights,
          component_scores |->
            [gana_line1 |-> gana_score1, gana_line2 |-> gana_score2,
             prasa |-> prasa_score_result,
             yati_line1 |-> yati_score1, yati_line2 |-> yati_score2]],
       validation_summary |->
         [gana_sequence_line1 |-> pada1.is_valid_gana_sequence,
          gana_sequence_line2 |-> pada2.is_valid_gana_sequence,
          prasa_match |-> prasa_result.is_match,
          yati_line1_match |-> IF yati_line1 # None THEN <<yati_line1.match>> ELSE <<>>,
          yati_line2_match |-> IF yati_line2 # None THEN <<yati_line2.match>> ELSE <<>>]]

(* analyze_dwipada from the component scores on: the overall score *)
couplet_scored(pada1, pada2, prasa_result, yati_line1, yati_line2, gana_score1, gana_score2, prasa_score_result, yati_score1, yati_score2) ==
  couplet_result(pada1, pada2, prasa_result, yati_line1, yati_line2,
                 gana_score1, gana_score2, prasa_score_result, yati_score1, yati_score2,
                 calculate_overall_score(gana_score1, gana_score2, prasa_score_result,
                                         yati_score1, yati_score2))

(* analyze_dwipada from the yati checks on: the component scores *)
couplet_checked(pada1, pada2, prasa_result, yati_line1, yati_line2) ==
  couplet_scored(pada1, pada2, prasa_result, yati_line1, yati_line2,
                 calculate_gana_score(pada1.partition),
                 calculate_gana_score(pada2.partition),
                 calculate_prasa_score(prasa_result.details),
                 calculate_yati_score(yati_line1),
                 calculate_yati_score(yati_line2))

(* analyze_dwipada from the analysed lines on: the yati of each line *)
couplet_of_padas(pada1, pada2, prasa_result) ==
  couplet_checked(pada1, pada2, prasa_result, yati_of_pada(pada1), yati_of_pada(pada2))

(* analyze_dwipada once the two lines are there and check_prasa has returned *)
couplet_analysis(l1, l2, prasa_result) ==
  LET padas == [i \in 1..2 |-> analyze_pada(<<l1, l2>>[i])]
  IN  couplet_of_padas(padas[1], padas[2], prasa_result)

(* what the caller gets when analyze_dwipada raises *)
Raised(exception) == [raised |-> exception]

(* mutant of analyze_dwipada: `len(lines) < 1`, so that one line passes the
   test and the unpacking of lines[1] fails *)
analyze_dwipada_one_line_passes(text_in) ==
  LET lines == poem_lines(text_in)
  IN  IF Len(lines) < 1 THEN {Raised("ValueError")}
      ELSE IF Len(lines) < 2 THEN {Raised("IndexError")}
      ELSE {couplet_analysis(lines[1], lines[2], prasa_result) :
              prasa_result \in check_prasa(lines[1], lines[2])}

(* the outcomes of analyze_dwipada *)
analyze_dwipada(text_in) ==
  LET lines == poem_lines(text_in)
  IN  IF Len(lines) < 2 THEN {Raised("ValueError")}
      ELSE {couplet_analysis(lines[1], lines[2], prasa_result) :
              prasa_result \in check_prasa(lines[1], lines[2])}

ScoreIdle ==
  /\ gana_score = None
  /\ sub_scores = None
  /\ match_score = None

CoupletIdle ==
  /\ poem = <<>>
  /\ analysis = None

(* generate_comprehensive_json of aksharanusarika.py: the loop that builds
   gana_marker_details, idx running over pure_aksharalu from idx on *)
RECURSIVE gana_marker_details(_, _, _)
gana_marker_details(pure_aks, ganam_markers, idx) ==
  IF idx >= Len(pure_aks) THEN <<>>
  ELSE (IF idx < Len(ganam_markers) /\ ganam_markers[idx + 1] # ""
        THEN <<[aksharam |-> pure_aks[idx + 1],
                marker |-> ganam_markers[idx + 1],
                position |-> idx]>>
        ELSE <<>>)
       \o gana_marker_details(pure_aks, ganam_markers, idx + 1)

(* generate_comprehensive_json: the akshara list and the prosody fields of
   the report that do not depend on the clock *)
generate_comprehensive_json(text_in) ==
  LET analysed == analyze_telugu_word(sanitize(text_in))
      ganam_markers == akshara_ganavibhajana(analysed.aksharaluList)
      pure_aks == SelectSeq(analysed.aksharaluList,
                            LAMBDA ak : ~InCharSet(ak, ignorable_chars))
  IN  [linguistic |-> [aksharaluList |-> analysed.aksharaluList],
       prosody |-> [ganaSequence |-> pure_markers(ganam_markers),
                    ganaMarkers |-> gana_marker_details(pure_aks, ganam_markers, 0)]]

ReportIdle ==
  /\ report_text = <<>>
  /\ report = None

CrawlIdle ==
  /\ files = <<>>
  /\ saved = None
  /\ proc = None
  /\ downloads = <<>>

FetchIdle == fetch = None

-----------------------------------------------------------------------------
(* Inputs of the segmenter and of the guru-laghu assigner *)

(* the characters texts are drawn from: two consonants, the virama, a short
   and a long vowel sign, a vowel, a diacritic, a space and a digit *)
TextChars == {"ka", "na", "~", "-i", "-aa", "a", "M", "SP", "1"}

SeqsUpTo(S, n) == UNION {[1..k -> S] : k \in 0..n}

Texts == SeqsUpTo(TextChars, MaxText)

(* the akshara shapes akshara lists are drawn from *)
AksharaShapes ==
  { <<"ka">>, <<"ka", "-aa">>, <<"ka", "-i">>, <<"ka", "-ai">>,
    <<"ka", "M">>, <<"ka", "-i", "H">>,
    <<"ka", "~", "na">>, <<"ka", "~", "ka">>, <<"ka", "na", "~">>,
    <<"ka", "~", "ka", "~", "na">>,
    <<"a">>, <<"aa">>, <<"au">>, <<"a", "M">>,
    <<"SP">>, <<"CB">>, <<"1">>, <<"~">>, <<"H">> }

AksharaLists == SeqsUpTo(AksharaShapes, MaxAk)

-----------------------------------------------------------------------------
(* Segmenter: a text is split by both modules *)

(* the variables of a component that a specification does not exercise *)
PartIdle ==
  /\ gana_markers = <<>>
  /\ line_aksharalu = <<>>
  /\ partition = None

SegIdle ==
  /\ text = <<>>
  /\ aksharalu = <<>>
  /\ da_aksharalu = <<>>
  /\ in_aksharalu = <<>>
  /\ markers = <<>>
  /\ da_markers = <<>>


InitSegment ==
  /\ pc = "start"
  /\ text \in Texts
  /\ aksharalu = <<>>
  /\ da_aksharalu = <<>>
  /\ in_aksharalu = <<>>
  /\ markers = <<>>
  /\ da_markers = <<>>
  /\ PartIdle
  /\ EnumIdle
  /\ YatiIdle
  /\ PrasaIdle
  /\ SimIdle
  /\ ScoreIdle
  /\ CoupletIdle
  /\ ReportIdle
  /\ CrawlIdle
  /\ FetchIdle

SplitAksharalu ==
  /\ pc = "start"
  /\ aksharalu' = split_aksharalu(text)
  /\ pc' = "split"
  /\ UNCHANGED <<text, da_aksharalu, in_aksharalu, markers, da_markers>>
  /\ UNCHANGED <<partVars, enumVars, yatiVars, prasaVars, simVars, scoreVars, coupletVars, reportVars, crawlVars, fetchVars>>

DASplitAksharalu ==
  /\ pc = "split"
  /\ da_aksharalu' = DA_split_aksharalu(text)
  /\ pc' = "done"
  /\ UNCHANGED <<text, aksharalu, in_aksharalu, markers, da_markers>>
  /\ UNCHANGED <<partVars, enumVars, yatiVars, prasaVars, simVars, scoreVars, coupletVars, reportVars, crawlVars, fetchVars>>

NextSegment == SplitAksharalu \/ DASplitAksharalu

SpecSegment == InitSegment /\ [][NextSegment]_vars

-----------------------------------------------------------------------------
(* Guru-laghu assigner: an akshara list is marked by both modules *)

InitGana ==
  /\ pc = "start"
  /\ in_aksharalu \in AksharaLists
  /\ text = <<>>
  /\ aksharalu = <<>>
  /\ da_aksharalu = <<>>
  /\ markers = <<>>
  /\ da_markers = <<>>
  /\ PartIdle
  /\ EnumIdle
  /\ YatiIdle
  /\ PrasaIdle
  /\ SimIdle
  /\ ScoreIdle
  /\ CoupletIdle
  /\ ReportIdle
  /\ CrawlIdle
  /\ FetchIdle

AksharaGanavibhajana ==
  /\ pc = "start"
  /\ markers' = akshara_ganavibhajana(in_aksharalu)
  /\ pc' = "marked"
  /\ UNCHANGED <<text, aksharalu, da_aksharalu, in_aksharalu, da_markers>>
  /\ UNCHANGED <<partVars, enumVars, yatiVars, prasaVars, simVars, scoreVars, coupletVars, reportVars, crawlVars, fetchVars>>

DAAksharaGanavibhajana ==
  /\ pc = "marked"
  /\ da_markers' = DA_akshara_ganavibhajana(in_aksharalu)
  /\ pc' = "done"
  /\ UNCHANGED <<text, aksharalu, da_aksharalu, in_aksharalu, markers>>
  /\ UNCHANGED <<partVars, enumVars, yatiVars, prasaVars, simVars, scoreVars, coupletVars, reportVars, crawlVars, fetchVars>>

NextGana == AksharaGanavibhajana \/ DAAksharaGanavibhajana

SpecGana == InitGana /\ [][NextGana]_vars

-----------------------------------------------------------------------------
(* The two copies of the pipeline side by side: a text is split by both
   modules, or an akshara list is marked by both *)

InitAgree ==
  /\ pc = "start"
  /\ \/ text \in SeqsUpTo(TextChars, MaxAgreeText) /\ in_aksharalu = <<>>
     \/ text = <<>> /\ in_aksharalu \in AksharaLists
  /\ aksharalu = <<>>
  /\ da_aksharalu = <<>>
  /\ markers = <<>>
  /\ da_markers = <<>>
  /\ PartIdle
  /\ EnumIdle
  /\ YatiIdle
  /\ PrasaIdle
  /\ SimIdle
  /\ ScoreIdle
  /\ CoupletIdle
  /\ ReportIdle
  /\ CrawlIdle
  /\ FetchIdle

NextAgree == NextSegment \/ NextGana

SpecAgree == InitAgree /\ [][NextAgree]_vars

-----------------------------------------------------------------------------
(* Report: one call of generate_comprehensive_json on a text *)

(* the pieces texts are put together from: a short and a long syllable, a
   conjunct, a space, a line break, a letter of another script *)
ReportUnits ==
  {<<"ka">>, <<"ka", "-aa">>, <<"ka", "~", "na">>, <<"SP">>, <<"NL">>, <<"x">>}

ReportTexts == {Join(units) : units \in SeqsUpTo(ReportUnits, MaxReportUnits)}

InitReport ==
  /\ pc = "start"
  /\ report_text \in ReportTexts
  /\ report = None
  /\ SegIdle
  /\ PartIdle
  /\ EnumIdle
  /\ YatiIdle
  /\ PrasaIdle
  /\ SimIdle
  /\ ScoreIdle
  /\ CoupletIdle
  /\ CrawlIdle
  /\ FetchIdle

GenerateComprehensiveJson ==
  /\ pc = "start"
  /\ report' = generate_comprehensive_json(report_text)
  /\ pc' = "done"
  /\ UNCHANGED <<report_text, segVars, partVars, enumVars, yatiVars, prasaVars, simVars,
                 scoreVars, coupletVars, crawlVars, fetchVars>>

NextReport == GenerateComprehensiveJson

SpecReport == InitReport /\ [][NextReport]_vars

-----------------------------------------------------------------------------
(* Crawler of crawl_ranganatha_ramayanam.py: runs of main, each of which may
   be interrupted at any step, over one output directory *)

(* the kandas and their numbers of chapters, cut down to two kandas *)
KANDAS ==
  <<[name |-> "BalaKanda", chapters |-> MaxChapters],
    [name |-> "AyodhyaKanda", chapters |-> 1]>>

(* chapter_id: the kanda and the number of the chapter *)
Chapters ==
  {c \in (1..Len(KANDAS)) \X (1..MaxChapters) : c[2] <= KANDAS[c[1]].chapters}

(* checkpoint.json after open(CHECKPOINT_FILE, 'w') and before json.dump has
   written all of it: not a JSON document *)
Truncated == [truncated |-> TRUE]

(* no process runs *)
NoProcess(run_no) ==
  [pc |-> "off", run_no |-> run_no, completed |-> <<>>, kanda |-> 1, chapter |-> 1,
   attempted |-> {}, listed |-> {}]

chapter_id(p) == <<p.kanda, p.chapter>>

(* `x in list` *)
InList(x, list) == \E i \in 1..Len(list) : list[i] = x

InitCrawl ==
  /\ pc = "start"
  /\ files = [c \in Chapters |-> "none"]
  /\ saved = None
  /\ proc = NoProcess(0)
  /\ downloads = [c \in Chapters |-> 0]
  /\ SegIdle
  /\ PartIdle
  /\ EnumIdle
  /\ YatiIdle
  /\ PrasaIdle
  /\ SimIdle
  /\ ScoreIdle
  /\ CoupletIdle
  /\ ReportIdle
  /\ FetchIdle

CrawlUnchanged ==
  UNCHANGED <<pc, segVars, partVars, enumVars, yatiVars, prasaVars, simVars, scoreVars,
              coupletVars, reportVars, fetchVars>>

(* the script is started *)
Main ==
  /\ proc.pc \in {"off", "ended", "interrupted", "crashed"}
  /\ proc.run_no < MaxRuns
  /\ proc' = [NoProcess(proc.run_no + 1) EXCEPT !.pc = "load"]
  /\ UNCHANGED <<files, saved, downloads>>
  /\ CrawlUnchanged

(* load_checkpoint: json.load raises on a file that is not a JSON document,
   and main does not catch it *)
LoadCheckpoint ==
  /\ proc.pc = "load"
  /\ proc' = IF saved = Truncated THEN [proc EXCEPT !.pc = "crashed"]
             ELSE LET completed == IF saved = None THEN <<>> ELSE saved.completed
                  IN  [proc EXCEPT !.pc = "check", !.completed = completed,
                                   !.listed = {completed[i] : i \in 1..Len(completed)}]
  /\ UNCHANGED <<files, saved, downloads>>
  /\ CrawlUnchanged

(* the head of the loops of main and crawl_kanda, and the skip test *)
CheckChapter ==
  /\ proc.pc = "check"
  /\ proc' = IF proc.chapter > KANDAS[proc.kanda].chapters
             THEN IF proc.kanda < Len(KANDAS)
                  THEN [proc EXCEPT !.kanda = @ + 1, !.chapter = 1]
                  ELSE [proc EXCEPT !.pc = "ended"]
             ELSE IF InList(chapter_id(proc), proc.completed)
                  THEN [proc EXCEPT !.chapter = @ + 1]
                  ELSE [proc EXCEPT !.pc = "fetch",
                                    !.attempted = @ \cup {chapter_id(proc)}]
  /\ UNCHANGED <<files, saved, downloads>>
  /\ CrawlUnchanged

(* mutant of CrawlChapterFetch: a failed chapter is recorded like a written
   one *)
CrawlChapterFetch_failure_recorded ==
  /\ proc.pc = "fetch"
  /\ \E ok \in BOOLEAN :
        proc' = [proc EXCEPT !.pc = IF ok THEN "write" ELSE "save"]
  /\ UNCHANGED <<files, saved, downloads>>
  /\ CrawlUnchanged

(* crawl_chapter up to its tests: fetch_page returned no page or the page had
   no content (return False), or there is a text to write *)
CrawlChapterFetch ==
  /\ proc.pc = "fetch"
  /\ \E ok \in BOOLEAN :
        proc' = [proc EXCEPT !.pc = IF ok THEN "write" ELSE "sleep"]
  /\ UNCHANGED <<files, saved, downloads>>
  /\ CrawlUnchanged

(* crawl_chapter: open(filepath, 'w') *)
CrawlChapterOpen ==
  /\ proc.pc = "write"
  /\ files' = [files EXCEPT ![chapter_id(proc)] = "partial"]
  /\ proc' = [proc EXCEPT !.pc = "close"]
  /\ UNCHANGED <<saved, downloads>>
  /\ CrawlUnchanged

(* crawl_chapter: the text is written, the file closed, return True *)
CrawlChapterWrite ==
  /\ proc.pc = "close"
  /\ files' = [files EXCEPT ![chapter_id(proc)] = "written"]
  /\ downloads' = [downloads EXCEPT ![chapter_id(proc)] = @ + 1]
  /\ proc' = [proc EXCEPT !.pc = "save"]
  /\ UNCHANGED saved
  /\ CrawlUnchanged

(* checkpoint['completed'].append(chapter_id) and save_checkpoint up to
   open(CHECKPOINT_FILE, 'w'), which empties the file *)
SaveCheckpointOpen ==
  /\ proc.pc = "save"
  /\ proc' = [proc EXCEPT !.pc = "dump", !.completed = Append(@, chapter_id(proc))]
  /\ saved' = Truncated
  /\ UNCHANGED <<files, downloads>>
  /\ CrawlUnchanged

(* save_checkpoint: json.dump has written the checkpoint, the file is closed *)
SaveCheckpointDump ==
  /\ proc.pc = "dump"
  /\ saved' = [completed |-> proc.completed]
  /\ proc' = [proc EXCEPT !.pc = "sleep"]
  /\ UNCHANGED <<files, downloads>>
  /\ CrawlUnchanged

(* time.sleep(REQUEST_DELAY), and on to the next chapter *)
Sleep ==
  /\ proc.pc = "sleep"
  /\ proc' = [proc EXCEPT !.pc = "check", !.chapter = @ + 1]
  /\ UNCHANGED <<files, saved, downloads>>
  /\ CrawlUnchanged

(* KeyboardInterrupt (or the process is killed) at any step of a run: what is
   on disk stays as it is *)
Interrupt ==
  /\ proc.pc \notin {"off", "ended", "interrupted", "crashed"}
  /\ proc' = [proc EXCEPT !.pc = "interrupted"]
  /\ UNCHANGED <<files, saved, downloads>>
  /\ CrawlUnchanged

NextCrawl ==
  \/ Main
  \/ LoadCheckpoint
  \/ CheckChapter
  \/ CrawlChapterFetch
  \/ CrawlChapterOpen
  \/ CrawlChapterWrite
  \/ SaveCheckpointOpen
  \/ SaveCheckpointDump
  \/ Sleep
  \/ Interrupt

SpecCrawl == InitCrawl /\ [][NextCrawl]_vars

-----------------------------------------------------------------------------
(* fetch_page of the three crawlers: one call, the network answering each
   request with a page or with a requests.RequestException *)

MAX_RETRIES == 3

(* the modules that hold a copy of fetch_page with a retries argument *)
FetchModules ==
  {"crawl_ranganatha_ramayanam", "crawl_basava_puranam", "crawl_palanati_veera_charitra"}

(* response.text of a request that succeeded *)
ResponseTexts == {"", "<html>"}

(* what requests.get and raise_for_status do with one request *)
RequestOutcomes == {"ok", "ConnectionError", "HTTPError"}

(* fetch_page has not returned *)
NoResult == [pending |-> TRUE]

InitFetch ==
  /\ pc = "start"
  /\ \E module \in FetchModules, retries \in 0..MaxRetries :
        fetch = [pc |-> "loop", module |-> module, retries |-> retries, attempt |-> 0,
                 requests |-> 0, failures |-> 0, sleeps |-> <<>>, console |-> 0,
                 result |-> NoResult]
  /\ SegIdle
  /\ PartIdle
  /\ EnumIdle
  /\ YatiIdle
  /\ PrasaIdle
  /\ SimIdle
  /\ ScoreIdle
  /\ CoupletIdle
  /\ ReportIdle
  /\ CrawlIdle

FetchUnchanged ==
  UNCHANGED <<pc, segVars, partVars, enumVars, yatiVars, prasaVars, simVars, scoreVars,
              coupletVars, reportVars, crawlVars>>

(* for attempt in range(retries): the next attempt, or the end of the loop and
   return None (after a last line on the console in two of the modules) *)
FetchPageLoop ==
  /\ fetch.pc = "loop"
  /\ fetch' = IF fetch.attempt < fetch.retries
              THEN [fetch EXCEPT !.pc = "request"]
              ELSE [fetch EXCEPT !.pc = "done", !.result = None,
                                 !.console = IF fetch.module = "crawl_ranganatha_ramayanam"
                                             THEN @ ELSE @ + 1]
  /\ FetchUnchanged

(* the try block: requests.get, raise_for_status, return response.text *)
FetchPageRequest ==
  /\ fetch.pc = "request"
  /\ \E outcome \in RequestOutcomes, t \in ResponseTexts :
        fetch' = IF outcome = "ok"
                 THEN [fetch EXCEPT !.pc = "done", !.requests = @ + 1,
                                    !.result = [text |-> t, request |-> fetch.requests + 1]]
                 ELSE [fetch EXCEPT !.pc = "except", !.requests = @ + 1, !.failures = @ + 1]
  /\ FetchUnchanged

(* mutant of FetchPageExcept: the wait follows every failed attempt *)
FetchPageExcept_sleep_always ==
  /\ fetch.pc = "except"
  /\ fetch' = [fetch EXCEPT !.pc = "loop", !.attempt = @ + 1, !.console = @ + 1,
                            !.sleeps = Append(@, [after |-> fetch.attempt,
                                                   seconds |-> 2 ^ fetch.attempt])]
  /\ FetchUnchanged

(* the except block: the failure is printed, and time.sleep(2 ** attempt)
   when attempt < retries - 1 *)
FetchPageExcept ==
  /\ fetch.pc = "except"
  /\ fetch' = [fetch EXCEPT !.pc = "loop", !.attempt = @ + 1, !.console = @ + 1,
                            !.sleeps = IF fetch.attempt < fetch.retries - 1
                                       THEN Append(@, [after |-> fetch.attempt,
                                                       seconds |-> 2 ^ fetch.attempt])
                                       ELSE @]
  /\ FetchUnchanged

NextFetch ==
  \/ FetchPageLoop
  \/ FetchPageRequest
  \/ FetchPageExcept

SpecFetch == InitFetch /\ [][NextFetch]_vars

(* the statements of fetch_page run one after the other in one thread;
   requests.get is called with timeout=TIMEOUT and time.sleep with a finite
   number, so every step that is begun ends *)
SpecFetchFair == SpecFetch /\ WF_vars(NextFetch)

-----------------------------------------------------------------------------
(* Gana partitioner: one line of weight markers is partitioned *)

(* a line of markers, with an Empty marker (a space) after its gap-th marker *)
WithGap(core, gap) ==
  IF gap = 0 \/ gap > Len(core) THEN core
  ELSE SubSeq(core, 1, gap) \o <<"">> \o SubSeq(core, gap + 1, Len(core))

(* an akshara of the weight of each marker *)
AksharaOf(m) ==
  IF m = "U" THEN <<"ka", "-aa">> ELSE IF m = "I" THEN <<"ka">> ELSE <<"SP">>

InitPartition ==
  /\ pc = "start"
  /\ \E core \in SeqsUpTo({"U", "I"}, MaxLine) : \E gap \in 0..MaxGap :
        /\ gap <= Len(core)
        /\ gana_markers = WithGap(core, gap)
  /\ line_aksharalu = [i \in 1..Len(gana_markers) |-> AksharaOf(gana_markers[i])]
  /\ partition = None
  /\ SegIdle
  /\ EnumIdle
  /\ YatiIdle
  /\ PrasaIdle
  /\ SimIdle
  /\ ScoreIdle
  /\ CoupletIdle
  /\ ReportIdle
  /\ CrawlIdle
  /\ FetchIdle

FindDwipadaGanaPartition ==
  /\ pc = "start"
  /\ partition' = find_dwipada_gana_partition(gana_markers, line_aksharalu)
  /\ pc' = "done"
  /\ UNCHANGED <<gana_markers, line_aksharalu>>
  /\ UNCHANGED <<segVars, enumVars, yatiVars, prasaVars, simVars, scoreVars, coupletVars, reportVars, crawlVars, fetchVars>>

NextPartition == FindDwipadaGanaPartition

SpecPartition == InitPartition /\ [][NextPartition]_vars

-----------------------------------------------------------------------------
(* Gana enumerator: one call on a fresh analyzer *)

Syllables(n) == SeqsUpTo({"U", "I"}, n)

InitEnum ==
  /\ pc = "start"
  /\ memo = <<>>
  /\ \E syllables \in Syllables(MaxSyl) :
        th = [t \in Threads |-> IF t = 1 THEN IdleThread(<<syllables>>)
                                ELSE IdleThread(<<>>)]
  /\ SegIdle
  /\ PartIdle
  /\ YatiIdle
  /\ PrasaIdle
  /\ SimIdle
  /\ ScoreIdle
  /\ CoupletIdle
  /\ ReportIdle
  /\ CrawlIdle
  /\ FetchIdle

NextEnum ==
  \E t \in Threads :
     \/ FindSequentialCombinations(t)
     \/ MemoContains(t)
     \/ MemoGetItem(t)
     \/ MemoSetItem(t)

SpecEnum == InitEnum /\ [][NextEnum]_vars

(* Gana enumerator: two callers share one analyzer, with no lock *)
InitConcurrent ==
  /\ pc = "start"
  /\ memo = <<>>
  /\ \E s1 \in Syllables(MaxConcSyl) : \E s2 \in Syllables(MaxConcSyl) :
        /\ s1 # s2
        /\ th = [t \in Threads |-> IdleThread(IF t = 1 THEN <<s1>> ELSE <<s2>>)]
  /\ SegIdle
  /\ PartIdle
  /\ YatiIdle
  /\ PrasaIdle
  /\ SimIdle
  /\ ScoreIdle
  /\ CoupletIdle
  /\ ReportIdle
  /\ CrawlIdle
  /\ FetchIdle

SpecConcurrent == InitConcurrent /\ [][NextEnum]_vars

(* Gana enumerator: one caller calls one analyzer twice, one call after the
   other *)
InitSequential ==
  /\ pc = "start"
  /\ memo = <<>>
  /\ \E s1 \in Syllables(MaxSeqSyl) : \E s2 \in Syllables(MaxSeqSyl) :
        th = [t \in Threads |-> IF t = 1 THEN IdleThread(<<s1, s2>>)
                                ELSE IdleThread(<<>>)]
  /\ SegIdle
  /\ PartIdle
  /\ YatiIdle
  /\ PrasaIdle
  /\ SimIdle
  /\ ScoreIdle
  /\ CoupletIdle
  /\ ReportIdle
  /\ CrawlIdle
  /\ FetchIdle

SpecSequential == InitSequential /\ [][NextEnum]_vars

-----------------------------------------------------------------------------
(* Yati matcher: one call on a pair of letters *)

(* the letters of the groups, letters of no group, the empty string and None *)
YatiLetters ==
  (UNION {YATI_MAITRI_GROUPS[k] : k \in 1..Len(YATI_MAITRI_GROUPS)})
  \cup {<<"nga">>, <<"-i">>, <<"1">>, <<"SP">>, <<>>, NoneStr}

InitYati ==
  /\ pc = "start"
  /\ letter1 \in YatiLetters
  /\ letter2 \in YatiLetters
  /\ yati = None
  /\ SegIdle
  /\ PartIdle
  /\ EnumIdle
  /\ PrasaIdle
  /\ SimIdle
  /\ ScoreIdle
  /\ CoupletIdle
  /\ ReportIdle
  /\ CrawlIdle
  /\ FetchIdle

CheckYatiMaitri ==
  /\ pc = "start"
  /\ yati' = check_yati_maitri(letter1, letter2)
  /\ pc' = "done"
  /\ UNCHANGED <<letter1, letter2, segVars, partVars, enumVars, prasaVars, simVars, scoreVars, coupletVars, reportVars, crawlVars, fetchVars>>

NextYati == CheckYatiMaitri

SpecYati == InitYati /\ [][NextYati]_vars

-----------------------------------------------------------------------------
(* Prasa matcher: one call on a pair of lines *)

(* the pieces lines are put together from: consonants of one varga and of
   another, a consonant with a vowel sign, a vowel, a space *)
PrasaUnits == {<<"ka">>, <<"ga", "-i">>, <<"na">>, <<"a">>, <<"SP">>}

PrasaLines == {Join(units) : units \in SeqsUpTo(PrasaUnits, MaxPrasaUnits)}

InitPrasa ==
  /\ pc = "start"
  /\ line1 \in PrasaLines
  /\ line2 \in PrasaLines
  /\ prasa = None
  /\ SegIdle
  /\ PartIdle
  /\ EnumIdle
  /\ YatiIdle
  /\ SimIdle
  /\ ScoreIdle
  /\ CoupletIdle
  /\ ReportIdle
  /\ CrawlIdle
  /\ FetchIdle

CheckPrasa ==
  /\ pc = "start"
  /\ prasa' \in check_prasa(line1, line2)
  /\ pc' = "done"
  /\ UNCHANGED <<line1, line2, segVars, partVars, enumVars, yatiVars, simVars, scoreVars, coupletVars, reportVars, crawlVars, fetchVars>>

NextPrasa == CheckPrasa

SpecPrasa == InitPrasa /\ [][NextPrasa]_vars

(* Prasa matcher: one call on two lines whose second aksharalu run over the
   whole consonant table, and a vowel *)
PrasaTableLines == {<<"a", c>> : c \in telugu_consonants \cup {"a"}}

InitPrasaTable ==
  /\ pc = "start"
  /\ line1 \in PrasaTableLines
  /\ line2 \in PrasaTableLines
  /\ prasa = None
  /\ SegIdle
  /\ PartIdle
  /\ EnumIdle
  /\ YatiIdle
  /\ SimIdle
  /\ ScoreIdle
  /\ CoupletIdle
  /\ ReportIdle
  /\ CrawlIdle
  /\ FetchIdle

SpecPrasaTable == InitPrasaTable /\ [][NextPrasa]_vars

-----------------------------------------------------------------------------
(* Word comparison: one call of compare_telugu_words on two words *)

(* the pieces words are put together from: a short and a long syllable, a
   space, a letter of another script *)
WordUnits == {<<"ka">>, <<"ka", "-aa">>, <<"SP">>, <<"x">>}

Words == {Join(units) : units \in SeqsUpTo(WordUnits, MaxWordUnits)}

InitCompare ==
  /\ pc = "start"
  /\ word1 \in Words
  /\ word2 \in Words
  /\ comparison = None
  /\ seq1 = <<>>
  /\ seq2 = <<>>
  /\ lcs = <<>>
  /\ SegIdle
  /\ PartIdle
  /\ EnumIdle
  /\ YatiIdle
  /\ PrasaIdle
  /\ ScoreIdle
  /\ CoupletIdle
  /\ ReportIdle
  /\ CrawlIdle
  /\ FetchIdle

CompareTeluguWords ==
  /\ pc = "start"
  /\ comparison' = compare_telugu_words(word1, word2)
  /\ pc' = "done"
  /\ UNCHANGED <<word1, word2, seq1, seq2, lcs, segVars, partVars, enumVars,
                 yatiVars, prasaVars, scoreVars, coupletVars, reportVars, crawlVars, fetchVars>>

NextCompare == CompareTeluguWords

SpecCompare == InitCompare /\ [][NextCompare]_vars

(* Longest common run: one call on two sequences of markers *)
MarkerSeqs == SeqsUpTo({"U", "I"}, MaxMarkers)

InitLcs ==
  /\ pc = "start"
  /\ seq1 \in MarkerSeqs
  /\ seq2 \in MarkerSeqs
  /\ lcs = <<>>
  /\ word1 = <<>>
  /\ word2 = <<>>
  /\ comparison = None
  /\ SegIdle
  /\ PartIdle
  /\ EnumIdle
  /\ YatiIdle
  /\ PrasaIdle
  /\ ScoreIdle
  /\ CoupletIdle
  /\ ReportIdle
  /\ CrawlIdle
  /\ FetchIdle

FindLongestCommonSubstring ==
  /\ pc = "start"
  /\ lcs' = find_longest_common_substring(seq1, seq2)
  /\ pc' = "done"
  /\ UNCHANGED <<word1, word2, comparison, seq1, seq2, segVars, partVars, enumVars,
                 yatiVars, prasaVars, scoreVars, coupletVars, reportVars, crawlVars, fetchVars>>

NextLcs == FindLongestCommonSubstring

SpecLcs == InitLcs /\ [][NextLcs]_vars

-----------------------------------------------------------------------------
(* Gana score: a line is partitioned, then the partition is scored *)

CalculateGanaScore ==
  /\ pc = "done"
  /\ gana_score' = calculate_gana_score(partition)
  /\ pc' = "scored"
  /\ UNCHANGED <<sub_scores, match_score, segVars, partVars, enumVars, yatiVars,
                 prasaVars, simVars, coupletVars, reportVars, crawlVars, fetchVars>>

NextGanaScore ==
  \/ FindDwipadaGanaPartition
  \/ CalculateGanaScore

SpecGanaScore == InitPartition /\ [][NextGanaScore]_vars

(* Overall score: one call on five sub-scores *)
GanaScores == {[score |-> 25 * k, ganas_matched |-> k] : k \in 0..4}

PrasaScores == {[score |-> 100, match |-> TRUE], [score |-> 0, match |-> FALSE]}

YatiScores ==
  {[score |-> 100, quality |-> "exact"], [score |-> 70, quality |-> "varga_match"],
   [score |-> 0, quality |-> "no_match"]}

InitOverall ==
  /\ pc = "start"
  /\ sub_scores \in [gana1 : GanaScores, gana2 : GanaScores, prasa : PrasaScores,
                     yati1 : YatiScores, yati2 : YatiScores]
  /\ match_score = None
  /\ gana_score = None
  /\ SegIdle
  /\ PartIdle
  /\ EnumIdle
  /\ YatiIdle
  /\ PrasaIdle
  /\ SimIdle
  /\ CoupletIdle
  /\ ReportIdle
  /\ CrawlIdle
  /\ FetchIdle

CalculateOverallScore ==
  /\ pc = "start"
  /\ match_score' = calculate_overall_score(sub_scores.gana1, sub_scores.gana2,
                                            sub_scores.prasa,
                                            sub_scores.yati1, sub_scores.yati2)
  /\ pc' = "done"
  /\ UNCHANGED <<gana_score, sub_scores, segVars, partVars, enumVars, yatiVars,
                 prasaVars, simVars, coupletVars, reportVars, crawlVars, fetchVars>>

NextOverall == CalculateOverallScore

SpecOverall == InitOverall /\ [][NextOverall]_vars

-----------------------------------------------------------------------------
(* Couplet analysis: one call of analyze_dwipada on a poem *)

(* lines of markers: four ganas that fit their slots (Bha Bha Bha Ha); a
   Surya gana in the third slot (Ta Ta Na Ha); ten syllables, which no
   partition fits *)
LineMarkers ==
  { <<"U", "I", "I", "U", "I", "I", "U", "I", "I", "U", "I">>,
    <<"U", "U", "I", "U", "U", "I", "I", "I", "I", "U", "I">>,
    <<"U", "I", "I", "U", "I", "I", "U", "I", "I", "U">> }

(* a line of the weights of line_markers whose first akshara begins with c1,
   whose second with c2 and whose others with ka *)
LineOf(line_markers, c1, c2) ==
  Join([k \in 1..Len(line_markers) |->
          <<IF k = 1 THEN c1 ELSE IF k = 2 THEN c2 ELSE "ka">>
          \o (IF line_markers[k] = "U" THEN <<"-aa">> ELSE <<>>)])

PoemLines ==
  {LineOf(m, c1, c2) : m \in LineMarkers, c1 \in {"ka", "ga", "na"}, c2 \in {"ka", "na"}}
  \cup {<<"ka">>, <<"SP">>}

(* the lines after the second *)
ExtraLines == {<<"ka">>, <<"SP">>, LineOf(CHOOSE m \in LineMarkers : TRUE, "ka", "ka")}

(* '\n'.join(lines) *)
RECURSIVE JoinLines(_)
JoinLines(lines) ==
  IF lines = <<>> THEN <<>>
  ELSE IF Len(lines) = 1 THEN lines[1]
  ELSE lines[1] \o <<"NL">> \o JoinLines(Tail(lines))

Poems ==
  {JoinLines(lines) : lines \in
     {ls \in UNION {[1..k -> PoemLines \cup ExtraLines] : k \in 0..MaxPoemLines} :
        \A k \in 3..Len(ls) : ls[k] \in ExtraLines}}

InitCouplet ==
  /\ pc = "start"
  /\ poem \in Poems
  /\ analysis = None
  /\ SegIdle
  /\ PartIdle
  /\ EnumIdle
  /\ YatiIdle
  /\ PrasaIdle
  /\ SimIdle
  /\ ScoreIdle
  /\ ReportIdle
  /\ CrawlIdle
  /\ FetchIdle

AnalyzeDwipada ==
  /\ pc = "start"
  /\ analysis' \in analyze_dwipada(poem)
  /\ pc' = "done"
  /\ UNCHANGED <<poem, segVars, partVars, enumVars, yatiVars, prasaVars, simVars,
                 scoreVars, reportVars, crawlVars, fetchVars>>

NextCouplet == AnalyzeDwipada

SpecCouplet == InitCouplet /\ [][NextCouplet]_vars

-----------------------------------------------------------------------------
(* Guru-laghu assigner on malformed input: lists that may hold the empty
   string, a lone sign, a lone virama, a digit, a letter of another script *)

MalformedShapes ==
  {<<>>, <<"ka">>, <<"SP">>, <<"~">>, <<"-aa">>, <<"M">>, <<"1">>, <<"x">>}

InitMalformed ==
  /\ pc = "start"
  /\ in_aksharalu \in SeqsUpTo(MalformedShapes, MaxAk)
  /\ text = <<>>
  /\ aksharalu = <<>>
  /\ da_aksharalu = <<>>
  /\ markers = <<>>
  /\ da_markers = <<>>
  /\ PartIdle
  /\ EnumIdle
  /\ YatiIdle
  /\ PrasaIdle
  /\ SimIdle
  /\ ScoreIdle
  /\ CoupletIdle
  /\ ReportIdle
  /\ CrawlIdle
  /\ FetchIdle

SpecMalformed == InitMalformed /\ [][NextGana]_vars

-----------------------------------------------------------------------------
(* C1: for every text, the units split_aksharalu returns, concatenated in
   order, give back the text exactly (both modules). *)
C1_RoundTrip ==
  /\ pc \in {"split", "done"} => Join(aksharalu) = text
  /\ pc = "done" => Join(da_aksharalu) = text

(* a text of full length whose bare consonant was merged into the unit before it *)
C1_Witness ==
  /\ pc = "done"
  /\ Len(text) = MaxText
  /\ Len(aksharalu) < Len(coarse_split(text))
  /\ Len(da_aksharalu) < Len(DA_coarse_from(text, 1))
  /\ Join(aksharalu) = text

(* C2: the marker list has the length of the akshara list; an ignorable unit
   is Empty, and any other akshara is Guru exactly when its tags hold
   long-vowel, anusvara or visarga, or its text holds a diphthong vowel, or
   its text ends with a virama, or the next non-ignorable akshara is tagged
   conjunct or doubled; otherwise it is Laghu. *)
C2_IsIgnorable(ak) == InCharSet(ak, ignorable_chars)

C2_NextIsCluster(list, i) ==
  \E j \in (i + 1)..Len(list) :
     /\ ~C2_IsIgnorable(list[j])
     /\ \A k \in (i + 1)..(j - 1) : C2_IsIgnorable(list[k])
     /\ categorize_aksharam(list[j]) \cap {"samyuktaksharam", "dvitvaksharam"} # {}

C2_Heavy(list, i) ==
  \/ categorize_aksharam(list[i]) \cap {"deergha", "anusvaram", "visarga aksharam"} # {}
  \/ \E v \in {"ai", "au", "-ai", "-au"} : HasChar(list[i], v)
  \/ list[i][Len(list[i])] = halant
  \/ C2_NextIsCluster(list, i)

C2_GuruLaghu ==
  pc \in {"marked", "done"} =>
    /\ Len(markers) = Len(in_aksharalu)
    /\ \A i \in 1..Len(in_aksharalu) :
         markers[i] = IF C2_IsIgnorable(in_aksharalu[i]) THEN ""
                      ELSE IF C2_Heavy(in_aksharalu, i) THEN "U" ELSE "I"

(* a light akshara made Guru only by the cluster that follows an ignorable unit *)
C2_Witness ==
  /\ pc = "marked"
  /\ Len(in_aksharalu) = 3
  /\ first_pass(in_aksharalu[1]) = "I"
  /\ C2_IsIgnorable(in_aksharalu[2])
  /\ markers[1] = "U"
  /\ markers[2] = ""
  /\ markers[3] = "I"

(* C3: any akshara whose text contains the anusvara or the visarga is Guru,
   whatever its vowel length and neighbours (dwipada_analyzer.py). *)
C3_DiacriticIsGuru ==
  pc = "done" =>
    \A i \in 1..Len(in_aksharalu) :
       (HasChar(in_aksharalu[i], "M") \/ HasChar(in_aksharalu[i], "H"))
         => da_markers[i] = "U"

(* short-vowel aksharas with an anusvara and a visarga, no cluster after them *)
C3_Witness ==
  /\ pc = "done"
  /\ Len(in_aksharalu) = 3
  /\ in_aksharalu[1] = <<"ka", "M">>
  /\ in_aksharalu[2] = <<"ka", "-i", "H">>
  /\ in_aksharalu[3] = <<"ka">>
  /\ da_markers = <<"U", "U", "I">>

(* C4: a fully valid partition tiles the line's non-empty markers with three
   Indra patterns followed by one Surya pattern, and ganas_matched is 4. *)
C4_PureGanas == SelectSeq(gana_markers, LAMBDA g : g # "")

C4_FullyValidTiles ==
  (pc = "done" /\ partition # None) =>
    (partition.is_fully_valid =>
       /\ StrJoin([k \in 1..4 |-> partition.ganas[k].pattern]) = StrJoin(C4_PureGanas)
       /\ \A k \in 1..3 : partition.ganas[k].pattern \in DOMAIN INDRA_GANAS
       /\ partition.ganas[4].pattern \in DOMAIN SURYA_GANAS
       /\ partition.ganas_matched = 4)

(* a fully valid partition of a line that holds a space, with a 4-long first
   gana and a 3-long Surya gana *)
C4_Witness ==
  /\ pc = "done"
  /\ partition # None
  /\ partition.is_fully_valid
  /\ Len(gana_markers) > partition.total_syllables
  /\ partition.partition_lengths[1] = 4
  /\ partition.partition_lengths[4] = 3

(* C5: find_dwipada_gana_partition returns none if and only if the line has
   fewer than 4 non-empty markers. *)
C5_NoneIffShort ==
  pc = "done" => ((partition = None) <=> (Len(C4_PureGanas) < 4))

(* C6: among the length combinations that fit the line, in the order of the
   nested loops, the result is the first fully valid one if there is one, and
   otherwise the first one with the greatest number of valid segments. *)
C6_Fitting ==
  {l \in {3, 4} \X {3, 4} \X {3, 4} \X {2, 3} :
     l[1] + l[2] + l[3] + l[4] = Len(C4_PureGanas)}

C6_Segment(l, k) ==
  LET start == IF k = 1 THEN 0 ELSE IF k = 2 THEN l[1]
               ELSE IF k = 3 THEN l[1] + l[2] ELSE l[1] + l[2] + l[3]
  IN  StrJoin(SubSeq(C4_PureGanas, start + 1, start + l[k]))

C6_ValidCount(l) ==
  Cardinality({k \in 1..3 : C6_Segment(l, k) \in {"IIII", "IIIU", "IIUI", "UII", "UIU", "UUI"}})
  + (IF C6_Segment(l, 4) \in {"III", "UI"} THEN 1 ELSE 0)

(* l is enumerated before c: i1 outermost, s innermost, smaller length first *)
C6_Before(l, c) ==
  \E k \in 1..4 : l[k] < c[k] /\ \A j \in 1..(k - 1) : l[j] = c[j]

C6_FirstBest ==
  pc = "done" =>
    /\ C6_Fitting # {} => partition # None
    /\ partition # None =>
         LET l == partition.partition_lengths
             full == {c \in C6_Fitting : C6_ValidCount(c) = 4}
         IN  /\ l \in C6_Fitting
             /\ partition.ganas_matched = C6_ValidCount(l)
             /\ IF full # {}
                THEN l \in full /\ \A c \in full \ {l} : C6_Before(l, c)
                ELSE \A c \in C6_Fitting \ {l} :
                        \/ C6_ValidCount(c) < C6_ValidCount(l)
                        \/ C6_ValidCount(c) = C6_ValidCount(l) /\ C6_Before(l, c)

(* no fully valid combination, and a later combination ties with the result *)
C6_Witness ==
  /\ pc = "done"
  /\ partition # None
  /\ ~partition.is_fully_valid
  /\ partition.ganas_matched >= 2
  /\ \E c \in C6_Fitting :
        /\ c # partition.partition_lengths
        /\ C6_ValidCount(c) = partition.ganas_matched

(* C7: find_sequential_combinations returns exactly the ways to cut the
   sequence into consecutive pieces that are keys of the flattened pattern
   table, each once; the empty sequence yields the one empty decomposition. *)
C7_Patterns ==
  {"U", "I", "II", "IU", "UI", "UU",
   "IUU", "UUU", "UUI", "UIU", "IUI", "UII", "III", "IIU",
   "IIIU", "IIUI", "IIII",
   "UIII", "UIIU", "UUII", "UUIU", "UUUI", "IIIII", "IIIUU", "IIIIU", "IIUUI",
   "IIUIU", "IIUUU", "IIIUI", "UIUU"}

(* the pieces of syllables from position `from` on, cut after the positions
   of cuts *)
RECURSIVE C7_PiecesFrom(_, _, _)
C7_PiecesFrom(syllables, cuts, from) ==
  IF from > Len(syllables) THEN <<>>
  ELSE LET ends == {e \in cuts \cup {Len(syllables)} : e >= from}
           end == CHOOSE e \in ends : \A d \in ends : e <= d
       IN  <<StrJoin(SubSeq(syllables, from, end))>>
           \o C7_PiecesFrom(syllables, cuts, end + 1)

C7_Pieces(syllables, cuts) == C7_PiecesFrom(syllables, cuts, 1)

(* brute force over every combination of cut points *)
C7_Tilings(syllables) ==
  IF syllables = <<>> THEN { <<>> }
  ELSE {C7_Pieces(syllables, cuts) : cuts \in
          {c \in SUBSET (1..(Len(syllables) - 1)) :
             \A k \in 1..Len(C7_Pieces(syllables, c)) :
                C7_Pieces(syllables, c)[k] \in C7_Patterns}}

C7_PatternsOf(combo) == [k \in 1..Len(combo) |-> combo[k].pattern]

C7_Complete(syllables, result) ==
  /\ {C7_PatternsOf(result[k]) : k \in 1..Len(result)} = C7_Tilings(syllables)
  /\ Len(result) = Cardinality(C7_Tilings(syllables))
  /\ \A k \in 1..Len(result) :
        StrJoin(C7_PatternsOf(result[k])) = StrJoin(syllables)
  /\ syllables = <<>> => result = << <<>> >>

C7_AllTilings ==
  th[1].status = "returned" => C7_Complete(th[1].input, th[1].result)

(* a sequence of five syllables returned with more decompositions than
   syllables, one of them the whole sequence as one piece, every suffix
   in the memo *)
C7_Witness ==
  /\ th[1].status = "returned"
  /\ Len(th[1].input) = 5
  /\ Len(th[1].result) > Len(th[1].input)
  /\ \E k \in 1..Len(th[1].result) : Len(th[1].result[k]) = 1
  /\ Cardinality(DOMAIN memo) = Len(th[1].input)

(* C8: for any interleaving of two calls on one GanaAnalyzer, each call
   returns the complete set of decompositions of its own input. *)
C8_ConcurrentCallsSafe ==
  \A t \in Threads :
     /\ th[t].status # "raised"
     /\ th[t].status = "returned" => C7_Complete(th[t].input, th[t].result)

(* C9: check_yati_maitri gives no-match (no quality, no group) when a letter
   is missing or empty; else an exact match of quality 100 when the letters
   are equal, before any group lookup; else a group match of quality 70 with
   the index and the members of the first group that holds both letters;
   else no-match. *)
C9_Missing(l) == l = NoneStr \/ Len(l) = 0

C9_Common == {k \in 1..11 : {letter1, letter2} \subseteq YATI_MAITRI_GROUPS[k]}

C9_NoMatch ==
  /\ yati.is_match = FALSE
  /\ yati.details.quality_score = 0
  /\ yati.group_index = NoneIndex
  /\ yati.details.matching_group_members = NoneMembers

C9_YatiVerdict ==
  pc = "done" =>
    IF C9_Missing(letter1) \/ C9_Missing(letter2) THEN C9_NoMatch
    ELSE IF letter1 = letter2
    THEN yati.is_match = TRUE /\ yati.details.quality_score = 100
         /\ yati.details.match_type = "exact"
    ELSE IF C9_Common # {}
    THEN /\ yati.is_match = TRUE
         /\ yati.details.quality_score = 70
         /\ yati.group_index + 1 \in C9_Common
         /\ \A k \in C9_Common : yati.group_index + 1 <= k
         /\ yati.details.matching_group_members = YATI_MAITRI_GROUPS[yati.group_index + 1]
    ELSE C9_NoMatch

(* an exact match of a letter that also lies in a group *)
C9_Witness ==
  /\ pc = "done"
  /\ letter1 = <<"ka">>
  /\ letter2 = <<"ka">>
  /\ yati.details.quality_score = 100
  /\ yati.details.letter1_info.yati_groups = <<3>>

(* C10: when a line given to check_prasa has fewer than two aksharalu that
   are not ignorable, the result carries an error marker and none of the
   fields of a verdict, so that it is told apart from a mismatch, which
   carries the verdict fields and no error marker. *)
C10_VerdictFields ==
  {"match", "mismatch_details", "line1_consonant", "line2_consonant",
   "line1_second_aksharam", "line2_second_aksharam"}

C10_TooShort(line) == Len(pure_aksharalu(line)) < 2

C10_InsufficientInput ==
  pc = "done" =>
    IF C10_TooShort(line1) \/ C10_TooShort(line2)
    THEN /\ "error" \in DOMAIN prasa.details
         /\ DOMAIN prasa.details \cap C10_VerdictFields = {}
    ELSE /\ "error" \notin DOMAIN prasa.details
         /\ "match" \in DOMAIN prasa.details

(* a line whose only second unit is a space, against a line long enough *)
C10_Witness ==
  /\ pc = "done"
  /\ line1 = <<"ka", "SP">>
  /\ line2 = <<"ka", "na">>
  /\ "error" \in DOMAIN prasa.details

(* C11 as stated: for two lines long enough, check_prasa reports a match
   exactly when the base consonants taken from the second aksharalu are equal
   as values, an absent consonant being a value too. *)
C11_Second(line) ==
  SelectSeq(DA_split_aksharalu(line), LAMBDA ak : ak \notin {<<c>> : c \in ignorable_chars})[2]

C11_Base(ak) == IF ak[1] \in telugu_consonants THEN <<ak[1]>> ELSE <<"absent">>

C11_PlainEquality ==
  (pc = "done" /\ ~C10_TooShort(line1) /\ ~C10_TooShort(line2)) =>
     (prasa.is_match <=> C11_Base(C11_Second(line1)) = C11_Base(C11_Second(line2)))

(* C11, amended: for two lines long enough, check_prasa reports a match
   exactly when both second aksharalu begin with a consonant and the two
   consonants are equal; the details carry the same verdict. *)
C11_MatchIffSameConsonant ==
  (pc = "done" /\ ~C10_TooShort(line1) /\ ~C10_TooShort(line2)) =>
     /\ prasa.is_match <=>
          /\ C11_Base(C11_Second(line1)) # <<"absent">>
          /\ C11_Base(C11_Second(line1)) = C11_Base(C11_Second(line2))
     /\ prasa.details.match = prasa.is_match

(* both second aksharalu are vowels: no consonant on either side, no match *)
C11_Witness ==
  /\ pc = "done"
  /\ line1 = <<"ka", "a">>
  /\ line2 = <<"na", "SP", "a">>
  /\ prasa.is_match = FALSE
  /\ prasa.details.line1_consonant = NoneStr
  /\ prasa.details.line2_consonant = NoneStr

(* C12: when the second aksharalu of the two lines have base consonants and
   these differ, check_prasa gives match = false and mismatch details whose
   two consonants and two vargas are all there; every consonant of the
   consonant table has a varga. *)
C12_Populated(breakdown) ==
  /\ breakdown.consonant # NoneStr
  /\ breakdown.consonant # <<>>
  /\ breakdown.consonant_varga # NoneName

C13_IsRatio(r, n, d) == r.den > 0 /\ r.num * d = n * r.den

C13_Bigrams(ganam_markers) ==
  LET at == {k \in 1..Len(ganam_markers) : ganam_markers[k] # ""}
  IN  {<<ganam_markers[i], ganam_markers[j]>> :
         <<i, j>> \in {p \in at \X at :
                         p[1] < p[2] /\ \A k \in at : ~(p[1] < k /\ k < p[2])}}

C13_Jaccard(result, set1, set2, when_empty) ==
  /\ IF set1 \cup set2 = {}
     THEN C13_IsRatio(result.similarity, when_empty, 1)
     ELSE C13_IsRatio(result.similarity, Cardinality(set1 \cap set2),
                      Cardinality(set1 \cup set2))
  /\ result.distance.den > 0
  /\ result.distance.num * result.similarity.den
       + result.similarity.num * result.distance.den
     = result.distance.den * result.similarity.den

C13_JaccardConventions ==
  pc = "done" =>
    /\ C13_Jaccard([similarity |-> comparison.jaccardSimilarity,
                    distance |-> comparison.jaccardDistance],
                   comparison.tags1, comparison.tags2, 0)
    /\ C13_Jaccard(comparison.ganaJaccard,
                   C13_Bigrams(comparison.ganaMarkers1),
                   C13_Bigrams(comparison.ganaMarkers2), 1)

(* two words with no akshara to tag and no bigram: the tag-set similarity is
   0, the bigram similarity is 1 *)
C13_Witness ==
  /\ pc = "done"
  /\ word1 = <<"x">>
  /\ word2 = <<"SP">>
  /\ comparison.tags1 \cup comparison.tags2 = {}
  /\ comparison.jaccardSimilarity = Ratio(0, 1)
  /\ comparison.jaccardDistance = Ratio(1, 1)
  /\ comparison.ganaJaccard.similarity = Ratio(1, 1)
  /\ comparison.ganaJaccard.distance = Ratio(0, 1)

(* C14: find_longest_common_substring returns a run that lies contiguously
   in both sequences and is as long as any common contiguous run (empty when
   there is none); among the common runs of the greatest length it returns
   the one that ends earliest in the first sequence. *)
C14_Occurs(run, seq) ==
  \E k \in 1..(Len(seq) - Len(run) + 1) : SubSeq(seq, k, k + Len(run) - 1) = run

(* where in seq1 a run of n markers ends that also lies in seq2 *)
C14_CommonEnds(n) ==
  {i \in n..Len(seq1) : C14_Occurs(SubSeq(seq1, i - n + 1, i), seq2)}

C14_Longest ==
  LET lengths == {n \in 1..Len(seq1) : C14_CommonEnds(n) # {}}
  IN  IF lengths = {} THEN 0 ELSE CHOOSE n \in lengths : \A k \in lengths : k <= n

C14_LongestFirstFound ==
  pc = "done" =>
    IF C14_Longest = 0 THEN lcs = <<>>
    ELSE LET ends == C14_CommonEnds(C14_Longest)
             first == CHOOSE i \in ends : \A k \in ends : i <= k
         IN  /\ Len(lcs) = C14_Longest
             /\ C14_Occurs(lcs, seq1)
             /\ C14_Occurs(lcs, seq2)
             /\ lcs = SubSeq(seq1, first - C14_Longest + 1, first)

(* two common runs of the greatest length: the one found first is returned *)
C14_Witness ==
  /\ pc = "done"
  /\ seq1 = <<"U", "I", "I", "U">>
  /\ seq2 = <<"I", "U", "U", "I">>
  /\ lcs = <<"U", "I">>

(* C15: calculate_gana_score reports as ganas_matched the number of the four
   segments that are valid for their slot, which is the ganas_matched of the
   partition, and as score 25 times that number: 100 only for a fully valid
   partition, 0 for a missing partition. *)
C15_ValidForSlot(gana) ==
  IF gana.position = 4 THEN gana.pattern \in DOMAIN SURYA_GANAS
  ELSE gana.pattern \in DOMAIN INDRA_GANAS

C15_ScoreCountsValidSlots ==
  pc = "scored" =>
    IF partition = None
    THEN gana_score.score = 0 /\ gana_score.ganas_matched = 0
    ELSE /\ gana_score.ganas_matched
              = Cardinality({i \in 1..4 : C15_ValidForSlot(partition.ganas[i])})
         /\ gana_score.ganas_matched = partition.ganas_matched
         /\ gana_score.score = 25 * gana_score.ganas_matched
         /\ gana_score.score = 100 => partition.is_fully_valid

(* C16 as stated: the overall score is the weighted sum itself,
   0.40 x mean gana + 0.35 x prasa + 0.25 x mean yati. *)
C16_Sum200 ==
  (sub_scores.gana1.score + sub_scores.gana2.score) * 40
    + sub_scores.prasa.score * 70
    + (sub_scores.yati1.score + sub_scores.yati2.score) * 25

C16_ExactWeightedSum ==
  pc = "done" => match_score.overall_tenths * 20 = C16_Sum200

(* C16, amended: the overall score is the weighted sum
   0.40 x mean gana + 0.35 x prasa + 0.25 x mean yati rounded to one decimal
   (a tie to the even digit); it lies in 0..100 and is 100 exactly when all
   five sub-scores are 100. *)
C16_RoundedWeightedSum ==
  pc = "done" =>
    LET off == match_score.overall_tenths * 20 - C16_Sum200
    IN  /\ -10 <= off /\ off <= 10
        /\ (off = 10 \/ off = -10) => match_score.overall_tenths % 2 = 0
        /\ 0 <= match_score.overall_tenths /\ match_score.overall_tenths <= 1000
        /\ match_score.overall_tenths = 1000 <=>
             /\ sub_scores.gana1.score = 100 /\ sub_scores.gana2.score = 100
             /\ sub_scores.prasa.score = 100
             /\ sub_scores.yati1.score = 100 /\ sub_scores.yati2.score = 100

(* a weighted sum of 21.25 is reported as 21.2 *)
C16_Witness ==
  /\ pc = "done"
  /\ sub_scores.gana1.score = 0 /\ sub_scores.gana2.score = 0
  /\ sub_scores.prasa.score = 0
  /\ sub_scores.yati1.score = 70 /\ sub_scores.yati2.score = 100
  /\ match_score.overall_tenths = 212

(* C17: analyze_dwipada reports is_valid_dwipada only if both lines have a
   fully valid partition (three Indra ganas, then a Surya gana), prasa
   matches, and yati matches on both lines. *)
C17_YatiMatches(yati_line) == yati_line # None /\ yati_line.match

C17_FullyValid(pada) == pada.partition # None /\ pada.partition.is_fully_valid

C17_ValidOnlyIfAllRules ==
  (pc = "done" /\ "is_valid_dwipada" \in DOMAIN analysis /\ analysis.is_valid_dwipada) =>
     /\ C17_FullyValid(analysis.pada1)
     /\ C17_FullyValid(analysis.pada2)
     /\ analysis.validation_summary.prasa_match
     /\ C17_YatiMatches(analysis.yati_line1)
     /\ C17_YatiMatches(analysis.yati_line2)

(* C18: analyze_dwipada raises ValueError, with no analysis made, for every
   poem that has fewer than two lines that are not blank. *)
C18_NonBlank(line) == \E k \in 1..Len(line) : line[k] \notin {"SP", "NL"}

(* the number of lines of the poem that are not blank *)
RECURSIVE C18_CountFrom(_, _)
C18_CountFrom(k, line) ==
  IF k > Len(poem) THEN (IF C18_NonBlank(line) THEN 1 ELSE 0)
  ELSE IF poem[k] = "NL"
  THEN (IF C18_NonBlank(line) THEN 1 ELSE 0) + C18_CountFrom(k + 1, <<>>)
  ELSE C18_CountFrom(k + 1, Append(line, poem[k]))

C18_LineCount == C18_CountFrom(1, <<>>)

C18_TooFewLinesRaise ==
  (pc = "done" /\ C18_LineCount < 2) => analysis = [raised |-> "ValueError"]

(* a poem of one line and a blank line *)
C18_Witness ==
  /\ pc = "done"
  /\ C18_LineCount = 1
  /\ \E k \in 1..Len(poem) : poem[k] = "NL"
  /\ analysis = [raised |-> "ValueError"]

(* C19: analyze_dwipada fails with the precondition error for every poem whose
   number of lines that are not blank is not two, three or more included. *)
C19_NotTwoLinesRaise ==
  (pc = "done" /\ C18_LineCount # 2) => analysis = [raised |-> "ValueError"]

(* C20: categorize_aksharam returns a set of tags for every string, the empty
   string too, and akshara_ganavibhajana returns markers for every list of
   strings, one that holds an empty string too: neither raises. *)
C20_NoRaiseOnMalformed ==
  /\ pc \in {"marked", "done"} =>
        /\ \A k \in 1..Len(in_aksharalu) :
              /\ categorize_aksharam(in_aksharalu[k]) # TagsIndexError
              /\ DA_categorize_aksharam(in_aksharalu[k]) # TagsIndexError
        /\ markers # MarkersIndexError
        /\ Len(markers) = Len(in_aksharalu)
  /\ pc = "done" =>
        /\ da_markers # MarkersIndexError
        /\ Len(da_markers) = Len(in_aksharalu)

(* the positions of the text at which the units begin *)
C21_Starts(units) ==
  {1 + Len(Join(SubSeq(units, 1, k))) : k \in 0..(Len(units) - 1)}

C21_AfterConsonant(i) == i > 1 /\ text[i - 1] \in telugu_consonants

(* C21, as stated: split_aksharalu outputs no unit that is a virama alone, and
   a virama that no consonant precedes begins no unit: it lies inside the unit
   before it (both modules). *)
C21_NoLoneVirama ==
  pc = "done" =>
    \A units \in {aksharalu, da_aksharalu} :
      /\ \A k \in 1..Len(units) : units[k] # <<halant>>
      /\ \A i \in 1..Len(text) :
            (text[i] = halant /\ ~C21_AfterConsonant(i)) => i \notin C21_Starts(units)

(* C21, amended: a virama lies inside the unit of the character before it
   exactly when that character is a consonant; every other virama begins a
   unit of its own (both modules). *)
C21_ViramaBeginsUnitUnlessAfterConsonant ==
  pc = "done" =>
    \A units \in {aksharalu, da_aksharalu} :
      \A i \in 1..Len(text) :
        text[i] = halant => (i \in C21_Starts(units) <=> ~C21_AfterConsonant(i))

(* a text with a virama after a consonant and a virama after a vowel sign; the
   second is a unit alone *)
C21_Witness ==
  /\ pc = "done"
  /\ \E i, j \in 1..Len(text) :
        /\ text[i] = halant /\ C21_AfterConsonant(i)
        /\ text[j] = halant /\ j > 1 /\ text[j - 1] \in dependent_vowels
  /\ \E k \in 1..Len(aksharalu) : aksharalu[k] = <<halant>>
  /\ \E k \in 1..Len(da_aksharalu) : da_aksharalu[k] = <<halant>>

C22_Bare(unit) ==
  Len(unit) = 2 /\ unit[1] \in telugu_consonants /\ unit[2] = halant

C22_Ignorable(unit) == Len(unit) = 1 /\ unit[1] \in ignorable_chars

(* the coarse units that stay the beginning of a unit: all but the bare
   consonants that are neither first nor right after an ignorable unit *)
C22_Kept(coarse) ==
  {k \in 1..Len(coarse) :
     ~C22_Bare(coarse[k]) \/ k = 1 \/ C22_Ignorable(coarse[k - 1])}

(* C22: in the output of split_aksharalu a unit that is one consonant and a
   virama is the first unit or comes right after an ignorable unit; every other
   bare consonant of the coarse pass lies at the end of the unit before it, so
   the units begin exactly where the other coarse units begin; and a unit that
   holds an ignorable character is that character alone (both modules). *)
C22_BareConsonantsMerged ==
  pc = "done" =>
    \A units \in {aksharalu, da_aksharalu} :
      /\ \A k \in 1..Len(units) :
            /\ C22_Bare(units[k]) => (k = 1 \/ C22_Ignorable(units[k - 1]))
            /\ (\E j \in 1..Len(units[k]) : units[k][j] \in ignorable_chars)
                 => Len(units[k]) = 1
      /\ C21_Starts(units) =
           {1 + Len(Join(SubSeq(coarse_split(text), 1, k - 1))) :
              k \in C22_Kept(coarse_split(text))}

(* a bare consonant that stays as the first unit, and a later bare consonant
   that was appended to the unit before it *)
C22_Witness ==
  /\ pc = "done"
  /\ Len(aksharalu) = 2
  /\ Len(coarse_split(text)) = 3
  /\ C22_Bare(aksharalu[1])
  /\ C22_Bare(coarse_split(text)[3])
  /\ aksharalu[2] = coarse_split(text)[2] \o coarse_split(text)[3]
  /\ da_aksharalu = aksharalu

(* the pairs of consonants of the akshara that one virama separates *)
C23_Pairs(ak) ==
  {<<ak[i], ak[i + 2]>> : i \in {j \in 1..(Len(ak) - 2) :
      ak[j] \in telugu_consonants /\ ak[j + 1] = halant /\ ak[j + 2] \in telugu_consonants}}

C23_ShapeTags(tags, ak) ==
  /\ "samyuktaksharam" \in tags <=> \E p \in C23_Pairs(ak) : p[1] # p[2]
  /\ "dvitvaksharam" \in tags <=> \E p \in C23_Pairs(ak) : p[1] = p[2]

C23_Short(tags) ==
  /\ "hallu" \in tags \/ "acchu" \in tags
  /\ tags \cap {"deergha", "anusvaram", "visarga aksharam"} = {}

(* C23, as stated: categorize_aksharam (of either module) gives the conjunct
   tag exactly when two different consonants stand on the two sides of one
   virama, the doubled tag exactly when the same consonant does, and the short
   vowel tag exactly when the tags hold consonant or vowel and none of long
   vowel, anusvara and visarga. *)
C23_TagsAsStated ==
  pc = "done" =>
    \A k \in 1..Len(in_aksharalu) :
      \A tags \in {categorize_aksharam(in_aksharalu[k]),
                    DA_categorize_aksharam(in_aksharalu[k])} :
        /\ C23_ShapeTags(tags, in_aksharalu[k])
        /\ "hrasvaksharam" \in tags <=> C23_Short(tags)

(* C23, amended: both modules give the conjunct and the doubled tag as stated;
   categorize_aksharam of aksharanusarika.py gives the short vowel tag as
   stated, and categorize_aksharam of dwipada_analyzer.py never gives it. *)
C23_ShortTagInOneModule ==
  pc = "done" =>
    \A k \in 1..Len(in_aksharalu) :
      /\ C23_ShapeTags(categorize_aksharam(in_aksharalu[k]), in_aksharalu[k])
      /\ C23_ShapeTags(DA_categorize_aksharam(in_aksharalu[k]), in_aksharalu[k])
      /\ "hrasvaksharam" \in categorize_aksharam(in_aksharalu[k])
           <=> C23_Short(categorize_aksharam(in_aksharalu[k]))
      /\ "hrasvaksharam" \notin DA_categorize_aksharam(in_aksharalu[k])

(* a list with an akshara that has both shapes and both tags, a short akshara
   and a long one *)
C23_Witness ==
  /\ pc = "done"
  /\ \E k \in 1..Len(in_aksharalu) :
        {"samyuktaksharam", "dvitvaksharam"} \subseteq
           (categorize_aksharam(in_aksharalu[k]) \cap DA_categorize_aksharam(in_aksharalu[k]))
  /\ \E k \in 1..Len(in_aksharalu) :
        /\ "hrasvaksharam" \in categorize_aksharam(in_aksharalu[k])
        /\ "hallu" \in DA_categorize_aksharam(in_aksharalu[k])
  /\ \E k \in 1..Len(in_aksharalu) :
        /\ "deergha" \in categorize_aksharam(in_aksharalu[k])
        /\ "hrasvaksharam" \notin categorize_aksharam(in_aksharalu[k])

(* the call has just begun: the recursion has not made a step *)
C24_CallBegins == th[1].status = "running" /\ th[1].stack = <<NewFrame(th[1].input)>>

C24_Suffixes(syllables) ==
  {SubSeq(syllables, k, Len(syllables)) : k \in 1..Len(syllables)}

(* every entry of the cache is a result for a suffix of the input of the call
   that runs or has returned *)
C24_EntriesOfThisCall ==
  th[1].status \in {"running", "returned"} =>
    /\ DOMAIN memo \subseteq C24_Suffixes(th[1].input)
    /\ \A key \in DOMAIN memo : C7_Complete(key, memo[key])

C24_FreshResult ==
  th[1].status = "returned" => C7_Complete(th[1].input, th[1].result)

(* C24, as stated: over a sequence of calls on one GanaAnalyzer the cache is
   empty when a call begins, holds only entries of the call that runs, is
   discarded (empty) when the call has returned, and the result is that of a
   fresh analyzer. *)
C24_CacheScopedAndDiscarded ==
  /\ C24_CallBegins => memo = <<>>
  /\ C24_EntriesOfThisCall
  /\ th[1].status = "returned" => memo = <<>>
  /\ C24_FreshResult

(* C24, amended: the cache is empty when a call begins, holds only entries of
   the call that runs, and the result is that of a fresh analyzer; when the
   call has returned the cache is not discarded: it keeps one entry for every
   non-empty suffix of that call's input until the next call begins. *)
C24_CacheResetAtCallStart ==
  /\ C24_CallBegins => memo = <<>>
  /\ C24_EntriesOfThisCall
  /\ th[1].status = "returned" => DOMAIN memo = C24_Suffixes(th[1].input)
  /\ C24_FreshResult

(* the second call has returned its result for an input of full length, and
   its entries are still in the cache *)
C24_Witness ==
  /\ th[1].status = "returned"
  /\ th[1].todo = <<>>
  /\ Len(th[1].input) = MaxSeqSyl
  /\ Len(th[1].result) > 1
  /\ Cardinality(DOMAIN memo) = MaxSeqSyl
  /\ memo[th[1].input] = th[1].result

(* the patterns of n markers that begin with the marker first *)
C25_BeginWith(first, n) ==
  {first \o StrJoin(rest) : rest \in [1..(n - 1) -> {"U", "I"}]}

(* the fully valid length combinations of the line, counted on the markers *)
C25_FullyValid == {c \in C6_Fitting : C6_ValidCount(c) = 4}

(* C25: every Indra pattern of 4 markers begins with I and every one of 3
   with U, the Surya patterns are III and UI, and so a line has at most one
   fully valid partition: valid_partitions_found is 0 or 1. *)
C25_AtMostOneValidPartition ==
  /\ \A pattern \in DOMAIN INDRA_GANAS :
        \/ pattern \in C25_BeginWith("I", 4)
        \/ pattern \in C25_BeginWith("U", 3)
  /\ DOMAIN SURYA_GANAS = {"III", "UI"}
  /\ pc = "done" =>
        /\ Cardinality(C25_FullyValid) <= 1
        /\ partition # None =>
              /\ partition.valid_partitions_found \in {0, 1}
              /\ partition.valid_partitions_found = Cardinality(C25_FullyValid)

(* a line of 13 syllables that six length combinations fit, exactly one of
   them fully valid, and not the first one tried *)
C25_Witness ==
  /\ pc = "done"
  /\ partition # None
  /\ Len(C4_PureGanas) = 13
  /\ partition.all_partitions_tried = 6
  /\ partition.valid_partitions_found = 1
  /\ partition.partition_lengths # <<3, 3, 4, 3>>
  /\ \E k \in 1..Len(gana_markers) : gana_markers[k] = ""

C26_HasConsonant(ak) == \E j \in 1..Len(ak) : ak[j] \in telugu_consonants

(* C26: split_aksharalu of dwipada_analyzer.py returns the akshara sequence
   that split_aksharalu of aksharanusarika.py returns, and the two
   akshara_ganavibhajana return the same markers, although the tag sets of the
   two categorize_aksharam differ: the tags of dwipada_analyzer.py are among
   those of aksharanusarika.py, which has more for every akshara with a
   consonant. *)
C26_CopiesAgree ==
  pc = "done" =>
    /\ da_aksharalu = aksharalu
    /\ da_markers = markers
    /\ \A k \in 1..Len(in_aksharalu) :
          /\ DA_categorize_aksharam(in_aksharalu[k]) \subseteq categorize_aksharam(in_aksharalu[k])
          /\ C26_HasConsonant(in_aksharalu[k]) =>
                DA_categorize_aksharam(in_aksharalu[k]) # categorize_aksharam(in_aksharalu[k])

(* a text with a merged bare consonant split alike by both modules *)
C26_Witness ==
  /\ pc = "done"
  /\ Len(text) = MaxAgreeText
  /\ Len(aksharalu) > 1
  /\ Len(aksharalu) < Len(coarse_split(text))
  /\ da_aksharalu = aksharalu

(* an akshara list marked alike by both modules: a Guru by position before a
   conjunct whose tag sets differ *)
C26_WitnessMarkers ==
  /\ pc = "done"
  /\ Len(in_aksharalu) = MaxAk
  /\ Len(markers) = MaxAk
  /\ da_markers = markers
  /\ \E k \in 2..Len(in_aksharalu) :
        /\ in_aksharalu[k - 1] = <<"ka">>
        /\ markers[k - 1] = "U"
        /\ "samyuktaksharam" \in DA_categorize_aksharam(in_aksharalu[k])
        /\ DA_categorize_aksharam(in_aksharalu[k]) # categorize_aksharam(in_aksharalu[k])

(* the aksharas of the text and their weights, as split_aksharalu and
   akshara_ganavibhajana give them *)
C27_Aksharalu == split_aksharalu(sanitize(report_text))

C27_Weights == akshara_ganavibhajana(C27_Aksharalu)

(* the places of the aksharas that are not ignorable, in order *)
C27_Places ==
  SelectSeq([k \in 1..Len(C27_Aksharalu) |-> k],
            LAMBDA k : ~InCharSet(C27_Aksharalu[k], ignorable_chars))

(* C27: prosody.ganaMarkers of the report has one entry for each akshara of
   the text that is not ignorable, in order, and the marker of the entry is
   the weight akshara_ganavibhajana gave to that akshara, also when ignorable
   units stand between the aksharas. *)
C27_MarkersAligned ==
  pc = "done" =>
    /\ Len(report.prosody.ganaMarkers) = Len(C27_Places)
    /\ \A n \in 1..Len(C27_Places) :
          n <= Len(report.prosody.ganaMarkers) =>
            /\ report.prosody.ganaMarkers[n].aksharam = C27_Aksharalu[C27_Places[n]]
            /\ report.prosody.ganaMarkers[n].marker = C27_Weights[C27_Places[n]]

-----------------------------------------------------------------------------
(* The chapter ids of the checkpoint file as it is on disk: none while the
   file is absent or is not a JSON document *)
C28_Recorded ==
  IF saved = None \/ saved = Truncated THEN {}
  ELSE {saved.completed[i] : i \in 1..Len(saved.completed)}

(* C28: at every point of every run of the Ranganatha Ramayanam crawler, a
   run interrupted at any step included, a chapter id is in the completed
   list of the saved checkpoint only if the output file of that chapter has
   been written in full by a crawl_chapter that returned True; a chapter whose
   fetch or extraction failed in every attempt is not in the list *)
C28_RecordedOnlyIfWritten ==
  \A c \in C28_Recorded : files[c] = "written" /\ downloads[c] >= 1

(* C28 witness: a checkpoint that lists a chapter is on disk while a later
   run, started after an interrupted one, is fetching another chapter whose
   file is not written *)
C28_Witness ==
  /\ C28_Recorded # {}
  /\ proc.run_no >= 2
  /\ proc.pc = "fetch"
  /\ files[chapter_id(proc)] # "written"
  /\ \E c \in Chapters : c \notin C28_Recorded /\ files[c] = "partial"

-----------------------------------------------------------------------------
(* C29: a run resumed from a checkpoint never fetches a chapter the
   checkpoint lists as completed and attempts every chapter it does not list
   (it does not stop before the loop, and when it runs to the end every
   chapter was listed or attempted), so after any sequence of interrupted and
   resumed runs each chapter has been downloaded successfully at most once *)
C29_ResumeDownloadsOnce ==
  /\ proc.pc \in {"fetch", "write", "close"} => chapter_id(proc) \notin proc.listed
  /\ proc.pc # "crashed"
  /\ proc.pc = "ended" => proc.attempted \cup proc.listed = Chapters
  /\ \A c \in Chapters : downloads[c] <= 1

(* C29, the part on downloads alone: no chapter is downloaded successfully
   twice *)
C29_AtMostOneDownload == \A c \in Chapters : downloads[c] <= 1

(* C29, the part on resuming alone: no run stops in load_checkpoint *)
C29_ResumeStarts == proc.pc # "crashed"

-----------------------------------------------------------------------------
(* the waits of a call so far are 2^0, 2^1, ... seconds, one after each of
   the first failed attempts, in order *)
C30_Backoff ==
  \A i \in 1..Len(fetch.sleeps) :
    fetch.sleeps[i] = [after |-> i - 1, seconds |-> 2 ^ (i - 1)]

(* what holds at every step of a call of fetch_page *)
C30_Bounded ==
  /\ fetch.requests <= fetch.retries
  /\ fetch.failures <= fetch.requests
  /\ C30_Backoff
  /\ Len(fetch.sleeps) <= fetch.failures
  /\ fetch.retries >= 1 => Len(fetch.sleeps) <= fetch.retries - 1
  /\ fetch.retries = 0 => fetch.sleeps = <<>>
  /\ fetch.pc = "loop" /\ fetch.attempt < fetch.retries => Len(fetch.sleeps) = fetch.failures

(* what holds when fetch_page has returned *)
C30_Returned ==
  fetch.pc = "done" =>
    /\ fetch.result # NoResult
    /\ fetch.result = None <=> (fetch.requests = fetch.retries /\ fetch.failures = fetch.requests)
    /\ fetch.result # None =>
          /\ fetch.result.request = fetch.requests
          /\ fetch.result.text \in ResponseTexts
          /\ fetch.failures = fetch.requests - 1
          /\ Len(fetch.sleeps) = fetch.failures

(* C30: fetch_page(url, retries) makes at most retries requests, stops at the
   first that succeeds and returns its text, returns None exactly when all
   retries requests failed, waits 2^attempt seconds only between a failed
   attempt and the next one and never after the last, and every call
   returns *)
C30_FetchPageRetries ==
  /\ [](fetch # None => C30_Bounded /\ C30_Returned)
  /\ (fetch # None) ~> (fetch.pc = "done")

(* C30 witness: a call with the default number of retries in which every
   request failed has returned None after waits of 1 and 2 seconds *)
C30_Witness ==
  /\ fetch # None
  /\ fetch.pc = "done"
  /\ fetch.retries = MAX_RETRIES
  /\ fetch.result = None
  /\ fetch.requests = MAX_RETRIES
  /\ fetch.sleeps = <<[after |-> 0, seconds |-> 1], [after |-> 1, seconds |-> 2]>>

(* C30 witness of the other return: the second request succeeded after one
   wait *)
C30_WitnessSuccess ==
  /\ fetch # None
  /\ fetch.pc = "done"
  /\ fetch.result # None
  /\ fetch.requests = 2
  /\ Len(fetch.sleeps) = 1

====
